---- MODULE Spec2Model ----
(***************************************************************************)
(* Streaming confusion-matrix / metrics aggregation of odeon-landcover:    *)
(*   Metrics_Multiclass (odeon/commons/metric/metrics_multiclass.py) and   *)
(*   Metrics_Binary     (odeon/scripts/metrics_binary.py).                 *)
(*                                                                         *)
(* Numbers.  Pixel counts are integers.  Every float the code derives by   *)
(* a division (metrics, means, probabilities, thresholds, bin edges) is an *)
(* exact rational [n, d] in lowest terms; d = 0 stands for a non-finite    *)
(* float (NaN / Inf).  Floating-point rounding error is not modelled.      *)
(* Arrays are 0-based like numpy, except the flattened pixel axis 1..NPix. *)
(* Predictions are in the probability range (in_prob_range = True).        *)
(***************************************************************************)
EXTENDS Integers, Sequences, FiniteSets, TLC

(***************************************************************************)
(* Bounds of the model                                                     *)
(***************************************************************************)
MaxSamples == 2            \* longest dataset (number of samples)
NPix == 1                  \* H*W pixels of a sample, flattened
NbrClassScan == 2          \* channels (classes) of the multiclass datasets scanned
MaxClassCm == 3            \* largest joint matrix handed to get_metrics_from_cm alone
MaxPixelsCm == 3           \* most labelled pixels counted into such a matrix

(***************************************************************************)
(* Exact rationals                                                         *)
(***************************************************************************)
RECURSIVE Gcd(_, _)
Gcd(a, b) == IF b = 0 THEN a ELSE Gcd(b, a % b)

Abs(x) == IF x < 0 THEN -x ELSE x

NaN == [n |-> 0, d |-> 0]

Rat(n, d) ==
    IF d = 0 THEN NaN
    ELSE LET g == Gcd(Abs(n), Abs(d))
             s == IF d < 0 THEN -1 ELSE 1
         IN  [n |-> (s * n) \div g, d |-> (s * d) \div g]

Zero == Rat(0, 1)
One == Rat(1, 1)
Half == Rat(1, 2)
FromInt(k) == Rat(k, 1)

IsFinite(r) == r.d # 0

RAdd(a, b) == IF a.d = 0 \/ b.d = 0 THEN NaN ELSE Rat(a.n * b.d + b.n * a.d, a.d * b.d)
RMul(a, b) == IF a.d = 0 \/ b.d = 0 THEN NaN ELSE Rat(a.n * b.n, a.d * b.d)
\* float division: x / 0 is non-finite
RDiv(a, b) == IF a.d = 0 \/ b.d = 0 \/ b.n = 0 THEN NaN ELSE Rat(a.n * b.d, a.d * b.n)
RLt(a, b) == a.d # 0 /\ b.d # 0 /\ a.n * b.d < b.n * a.d
RLe(a, b) == a.d # 0 /\ b.d # 0 /\ a.n * b.d <= b.n * a.d
RGt(a, b) == RLt(b, a)

\* floor and remainder that do not depend on the sign convention of \div
FloorDiv(a, b) == IF a >= 0 THEN a \div b ELSE -(((-a) + b - 1) \div b)

\* np.round(x, decimals=2): rint(x * 100) / 100, ties to even
np_round2(x) ==
    IF x.d = 0 THEN NaN
    ELSE LET num == 100 * x.n
             q == FloorDiv(num, x.d)
             r == num - q * x.d
             up == \/ 2 * r > x.d
                   \/ (2 * r = x.d /\ q % 2 = 1)
         IN  Rat(IF up THEN q + 1 ELSE q, 100)

\* sum of f[k] over the finite set S, integers and rationals
RECURSIVE SumOver(_, _)
SumOver(S, f) ==
    IF S = {} THEN 0
    ELSE LET k == CHOOSE x \in S : TRUE IN f[k] + SumOver(S \ {k}, f)

RECURSIVE RSumOver(_, _)
RSumOver(S, f) ==
    IF S = {} THEN Zero
    ELSE LET k == CHOOSE x \in S : TRUE IN RAdd(f[k], RSumOver(S \ {k}, f))

(***************************************************************************)
(* numpy                                                                   *)
(***************************************************************************)
Pixels == 1 .. NPix

\* np.array(f): the array f with its entries computed, each once
np_array(f) == f @@ <<>>

\* np.zeros([n, n])
np_zeros2(n) == [r \in 0 .. n - 1 |-> [c \in 0 .. n - 1 |-> 0]]
\* np.zeros(n)
np_zeros(n) == [b \in 0 .. n - 1 |-> 0]
np_rzeros(n) == [b \in 0 .. n - 1 |-> Zero]

\* a + b, a * w and np.sum(a) on n x n matrices
\* an addition that keeps the first non-empty matrix it was given
MatAdd_first_wins(a, b) ==
    IF \E r \in DOMAIN a : \E c \in DOMAIN a[r] : a[r][c] # 0 THEN a ELSE b

MatAdd(a, b) == [r \in DOMAIN a |-> [c \in DOMAIN a[r] |-> a[r][c] + b[r][c]]]
MatScale(a, w) == [r \in DOMAIN a |-> [c \in DOMAIN a[r] |-> a[r][c] * w]]
MatSum(a) == SumOver(DOMAIN a, [r \in DOMAIN a |-> SumOver(DOMAIN a[r], a[r])])
\* an assignment in the place of the in-place addition
VecAssign(a, b) == b
\* a += b on vectors
VecAdd(a, b) == [k \in DOMAIN a |-> a[k] + b[k]]
RVecAdd(a, b) == [k \in DOMAIN a |-> RAdd(a[k], b[k])]

\* np.count_nonzero
np_count_nonzero(arr) == Cardinality({p \in DOMAIN arr : arr[p] # 0})

\* the index of the maximum that breaks ties towards the last index
np_argmax_last(v) ==
    CHOOSE k \in DOMAIN v :
        /\ \A j \in DOMAIN v : RLe(v[j], v[k])
        /\ \A j \in DOMAIN v : j > k => RLt(v[j], v[k])

\* np.argmax over the last axis: first index of the maximum
np_argmax(v) ==
    CHOOSE k \in DOMAIN v :
        /\ \A j \in DOMAIN v : RLe(v[j], v[k])
        /\ \A j \in DOMAIN v : j < k => RLt(v[j], v[k])

\* a histogram whose last bin is open on the right like the others
np_histogram_half_open(x, bins) ==
    LET B == Cardinality(DOMAIN bins) - 1
    IN  [b \in 0 .. B - 1 |->
            Cardinality({p \in DOMAIN x : RLe(bins[b], x[p]) /\ RLt(x[p], bins[b + 1])})]

\* np.histogram(x, bins)[0]: len(bins) - 1 bins, right-open, the last one closed
np_histogram(x, bins) ==
    LET B == Cardinality(DOMAIN bins) - 1
    IN  [b \in 0 .. B - 1 |->
            Cardinality({p \in DOMAIN x :
                /\ RLe(bins[b], x[p])
                /\ IF b = B - 1 THEN RLe(x[p], bins[b + 1]) ELSE RLt(x[p], bins[b + 1])})]

\* np.digitize(x, bins), increasing bins, right=False: number of edges <= x
np_digitize(x, bins) ==
    [p \in DOMAIN x |-> Cardinality({j \in DOMAIN bins : RLe(bins[j], x[p])})]

\* np.bincount(ids, minlength=m): ids are in 0 .. m - 1 here, negative ids raise
np_bincount(ids, m) ==
    [b \in 0 .. m - 1 |-> Cardinality({p \in DOMAIN ids : ids[p] = b})]
\* np.bincount(ids, weights=w, minlength=m)
np_bincount_w(ids, w, m) ==
    [b \in 0 .. m - 1 |->
        LET P == {p \in DOMAIN ids : ids[p] = b} IN RSumOver(P, [p \in P |-> w[p]])]

\* np.linspace(0, 1, n), n >= 2
np_linspace01(n) == [k \in 0 .. n - 1 |-> Rat(k, n - 1)]

(***************************************************************************)
(* Metrics (base class, odeon/commons/metric/metrics.py): what the two     *)
(* subclasses inherit.                                                      *)
(***************************************************************************)
\* self.metrics_names, in the order of the exported table; FPR is last
\* ("F1_Score" is the column 'F1-Score')
metrics_names == <<"Accuracy", "Precision", "Recall", "Specificity", "F1_Score", "IoU", "Dice", "FPR">>
\* self.metrics_names[:-1]
report_names == SubSeq(metrics_names, 1, Len(metrics_names) - 1)
SeqToSet(s) == {s[k] : k \in DOMAIN s}
headline_names == <<"Precision", "Recall", "F1_Score", "IoU">>

\* x / y of two counts with the zero guard: 0 when the denominator is 0
safe_div(x, y) == IF y = 0 THEN Zero ELSE Rat(x, y)
\* x / y as the float division does it
raw_div(x, y) == Rat(x, y)

\* get_metrics_from_obs without its zero guards
get_metrics_from_obs_unguarded(tp, fn, fp, tn) ==
    LET precision == raw_div(tp, tp + fp)
        recall == raw_div(tp, tp + fn)
    IN  [Accuracy |-> raw_div(tp + tn, tp + fn + fp + tn),
         Precision |-> precision,
         Recall |-> recall,
         Specificity |-> raw_div(tn, tn + fp),
         F1_Score |-> RDiv(RMul(FromInt(2), RMul(precision, recall)), RAdd(precision, recall)),
         IoU |-> raw_div(tp, tp + fn + fp),
         Dice |-> raw_div(2 * tp, 2 * tp + fn + fp),
         FPR |-> raw_div(fp, fp + tn)]

\* Metrics.get_metrics_from_obs(tp, fn, fp, tn): the metric table of a quadruple,
\* every metric 0 when its denominator is 0
get_metrics_from_obs(tp, fn, fp, tn) ==
    LET precision == safe_div(tp, tp + fp)
        recall == safe_div(tp, tp + fn)
        pr == RAdd(precision, recall)
    IN  [Accuracy |-> safe_div(tp + tn, tp + fn + fp + tn),
         Precision |-> precision,
         Recall |-> recall,
         Specificity |-> safe_div(tn, tn + fp),
         F1_Score |-> IF pr.n = 0 THEN Zero
                      ELSE RDiv(RMul(FromInt(2), RMul(precision, recall)), pr),
         IoU |-> safe_div(tp, tp + fn + fp),
         Dice |-> safe_div(2 * tp, 2 * tp + fn + fp),
         FPR |-> safe_div(fp, fp + tn)]

\* the binary binarization with >= in the place of >
binarize_binary_ge(prediction, thr) ==
    [p \in DOMAIN prediction |-> IF RLe(thr, prediction[p]) THEN 1 ELSE 0]

\* a binarizer that keeps the values under the threshold
binarize_binary_lt(prediction, thr) ==
    [p \in DOMAIN prediction |-> IF RLt(prediction[p], thr) THEN 1 ELSE 0]

\* Metrics.binarize('binary', prediction, threshold=threshold): strict >
binarize_binary(prediction, thr) ==
    [p \in DOMAIN prediction |-> IF RGt(prediction[p], thr) THEN 1 ELSE 0]

\* Metrics.binarize('multiclass', pred, mask=mask): argmax of both over the channels
binarize_multiclass(pred, mask) ==
    [mask |-> [p \in DOMAIN mask |-> np_argmax([c \in DOMAIN mask[p] |-> FromInt(mask[p][c])])],
     pred |-> [p \in DOMAIN pred |-> np_argmax(pred[p])]]

\* Metrics.get_confusion_matrix(truth, pred, nbr_class, revert_order): rows are the
\* true label, columns the predicted one, over the labels 0..n-1, or n-1..0 when
\* revert_order is set (so that the 2 x 2 matrix reads [[tp, fn], [fp, tn]])
get_confusion_matrix(truth, pred, n, revert_order) ==
    LET lab(k) == IF revert_order THEN n - 1 - k ELSE k
    IN  [r \in 0 .. n - 1 |-> [c \in 0 .. n - 1 |->
            Cardinality({p \in DOMAIN truth : truth[p] = lab(r) /\ pred[p] = lab(c)})]]

\* Metrics.__init__: the threshold range is n_thresholds evenly spaced values of
\* [0, 1], ordered, and holds the operating threshold
RECURSIVE SortedSeq(_)
SortedSeq(S) ==
    IF S = {} THEN <<>>
    ELSE LET m == CHOOSE x \in S : \A y \in S : RLe(x, y)
         IN  <<m>> \o SortedSeq(S \ {m})

\* the evenly spaced values alone, whether or not the threshold is one of them
init_threshold_range_linspace_only(thr, n_thresholds) ==
    LET lin == np_linspace01(n_thresholds)
    IN  SortedSeq({lin[k] : k \in DOMAIN lin})

init_threshold_range(thr, n_thresholds) ==
    LET lin == np_linspace01(n_thresholds)
        vals == {lin[k] : k \in DOMAIN lin}
    IN  SortedSeq(vals \cup {thr})

\* Metrics.__init__: n_bins + 1 evenly spaced bin edges of [0, 1]
\* Metrics.__init__ given a threshold range by the caller: the same rule, the
\* range is ordered and holds the operating threshold
init_threshold_range_given(thr, given) ==
    SortedSeq({given[k] : k \in DOMAIN given} \cup {thr})

init_bins(n_bins) == np_linspace01(n_bins + 1)

\* Metrics.__init__: self.weighted, and self.weights (ones when none are given)
init_weighted(w) == w # <<>>
init_weights(w, n) == IF w = <<>> THEN [k \in 1 .. n |-> 1] ELSE w

(***************************************************************************)
(* Metrics_Multiclass: the functions of a confusion matrix                 *)
(* A python list w is the sequence w[1..n]: w[k + 1] is its element k.     *)
(***************************************************************************)
RowSum(cm, r) == SumOver(DOMAIN cm[r], cm[r])
ColSum(cm, c) == SumOver(DOMAIN cm, [r \in DOMAIN cm |-> cm[r][c]])

\* get_obs_by_class_from_cm with fp taken as the whole column sum
get_obs_by_class_from_cm_fp_column(cm, n) ==
    [k \in 0 .. n - 1 |->
        [tp |-> cm[k][k],
         fn |-> RowSum(cm, k) - cm[k][k],
         fp |-> ColSum(cm, k),
         tn |-> MatSum(cm) - RowSum(cm, k) - ColSum(cm, k) + cm[k][k]]]

\* get_obs_by_class_from_cm with tn missing its "+ cm[i, i]"
get_obs_by_class_from_cm_tn_short(cm, n) ==
    [k \in 0 .. n - 1 |->
        [tp |-> cm[k][k],
         fn |-> RowSum(cm, k) - cm[k][k],
         fp |-> ColSum(cm, k) - cm[k][k],
         tn |-> MatSum(cm) - RowSum(cm, k) - ColSum(cm, k)]]

\* Metrics_Multiclass.get_obs_by_class_from_cm(cm), over the n class labels
get_obs_by_class_from_cm(cm, n) ==
    [k \in 0 .. n - 1 |->
        [tp |-> cm[k][k],
         fn |-> RowSum(cm, k) - cm[k][k],
         fp |-> ColSum(cm, k) - cm[k][k],
         tn |-> MatSum(cm) - RowSum(cm, k) - ColSum(cm, k) + cm[k][k]]]

\* cms_classes[i] = [[tp, fn], [fp, tn]]
cm_of_obs(o) == [r \in 0 .. 1 |-> [c \in 0 .. 1 |->
                    IF r = 0 THEN (IF c = 0 THEN o.tp ELSE o.fn)
                    ELSE (IF c = 0 THEN o.fp ELSE o.tn)]]

\* for k, weight in zip(range(nbr_class), weights): cm_micro += cms_classes[k] * weight
RECURSIVE weighted_sum_upto(_, _, _)
weighted_sum_upto(cms, w, k) ==
    IF k = 0 THEN np_zeros2(2)
    ELSE MatAdd(weighted_sum_upto(cms, w, k - 1), MatScale(cms[k - 1], w[k]))

\* np.sum(cms_classes, axis=0)
np_sum_axis0(cms) ==
    [r \in 0 .. 1 |-> [c \in 0 .. 1 |-> SumOver(DOMAIN cms, [k \in DOMAIN cms |-> cms[k][r][c]])]]

Min(a, b) == IF a < b THEN a ELSE b

\* the weighted branch stopping one class short
micro_cm_skip_last(cms, n, is_weighted, w) ==
    IF is_weighted THEN weighted_sum_upto(cms, w, Min(n, Len(w)) - 1)
    ELSE np_sum_axis0(cms)

\* get_metrics_from_cm, the micro confusion matrix
micro_cm(cms, n, is_weighted, w) ==
    IF is_weighted THEN weighted_sum_upto(cms, w, Min(n, Len(w)))
    ELSE np_sum_axis0(cms)

metrics_of_obs(o) == get_metrics_from_obs(o.tp, o.fn, o.fp, o.tn)
metrics_of_cm2(cm2) == get_metrics_from_obs(cm2[0][0], cm2[0][1], cm2[1][0], cm2[1][1])

\* Metrics_Multiclass.get_metrics_from_cm(cm_macro): the four values it returns
get_metrics_from_cm(cm_in, n, is_weighted, w) ==
    LET obs_by_class == np_array(get_obs_by_class_from_cm(cm_in, n))
        classes_cms == np_array([k \in 0 .. n - 1 |-> cm_of_obs(obs_by_class[k])])
        by_class == np_array([k \in 0 .. n - 1 |-> metrics_of_obs(obs_by_class[k])])
        micro == np_array(micro_cm(classes_cms, n, is_weighted, w))
    IN  [metrics_by_class |-> by_class,
         metrics_micro |-> metrics_of_cm2(micro),
         cms_classes |-> classes_cms,
         cm_micro |-> micro]

(***************************************************************************)
(* Inputs: datasets and configurations                                     *)
(***************************************************************************)
OneHot(n, k) == [c \in 0 .. n - 1 |-> IF c = k THEN 1 ELSE 0]
ZeroVec(n) == [c \in 0 .. n - 1 |-> 0]
Peak(n, k) == [c \in 0 .. n - 1 |-> IF c = k THEN One ELSE Zero]
Flat(n) == [c \in 0 .. n - 1 |-> Half]
Lean(n, k) == [c \in 0 .. n - 1 |-> IF c = k THEN Rat(3, 4) ELSE Rat(1, 4)]

\* one pixel of a multiclass sample: its mask channels and its prediction channels
PixelCasesMulticlass(n) ==
    { [mask |-> OneHot(n, 0), pred |-> Peak(n, 0)],       \* sure and right, values 1 and 0
      [mask |-> OneHot(n, 1), pred |-> Flat(n)],          \* all channels tie at the threshold 1/2
      [mask |-> OneHot(n, n - 1), pred |-> Lean(n, 1)],   \* leans to class 1
      [mask |-> ZeroVec(n), pred |-> Lean(n, 0)] }        \* unlabelled pixel

\* one pixel of a binary sample
PixelCasesBinary ==
    { [mask |-> 1, pred |-> One],           \* positive, predicted at every threshold below 1
      [mask |-> 1, pred |-> Rat(1, 4)],     \* positive, missed at the threshold 1/2
      [mask |-> 0, pred |-> Half] }         \* negative, at the threshold 1/2 itself

\* the samples: arrays over the flattened pixel axis
SamplesOf(cases) ==
    { [mask |-> [p \in Pixels |-> f[p].mask], pred |-> [p \in Pixels |-> f[p].pred]] :
        f \in [Pixels -> cases] }

\* the datasets: 1 .. MaxSamples samples, sample k identified by k (0-based)
DatasetsOf(samples) ==
    { [k \in 0 .. Len(sq) - 1 |->
          [mask |-> sq[k + 1].mask, pred |-> sq[k + 1].pred, name_file |-> k]] :
        sq \in UNION { [1 .. m -> samples] : m \in 1 .. MaxSamples } }

len(ds) == Cardinality(DOMAIN ds)

\* the constructor arguments tried: weights (<<>> is None), threshold, n_thresholds,
\* n_bins, get_metrics_per_patch
ArgsMulticlass(n) ==
    { [weights |-> <<>>, threshold |-> Half, n_thresholds |-> 3, n_bins |-> 2,
       get_metrics_per_patch |-> TRUE],
      [weights |-> [k \in 1 .. n |-> IF k = 1 THEN 2 ELSE 1], threshold |-> Rat(1, 4),
       n_thresholds |-> 2, n_bins |-> 4, get_metrics_per_patch |-> FALSE] }

\* Metrics_Binary takes the threshold range itself
ArgsBinary ==
    { [threshold |-> Half, threshold_range |-> <<Zero, Half, One>>, n_bins |-> 2],
      [threshold |-> Rat(1, 4), threshold_range |-> <<Rat(1, 4), Rat(3, 4)>>, n_bins |-> 4] }

(***************************************************************************)
(* State                                                                   *)
(***************************************************************************)
VARIABLES
    config,                  \* the attributes set by the constructor, fixed afterwards
    dataset,                 \* the sample stream
    pc,                      \* where the run is
    pulls,                   \* pulls[k]: how many times sample k was pulled from the stream
    dataset_index, i, th,    \* loop positions: sample, class, threshold (index in threshold_range)
    \* Metrics_Multiclass.scan_dataset
    cm_macro, cms_one_class, dict_hist_counts, dict_bin_sums, dict_bin_true, dict_bin_total,
    counts_sample_per_class, df_dataset, cr_cm, cm,
    vect_classes, dict_prob_true, dict_prob_pred,
    \* Metrics_Multiclass.run
    metrics_by_class, metrics_micro, cms_classes, cm_micro,
    df_report_classes, df_report_macro, df_report_micro,
    \* Metrics_Binary
    cms, hist_counts, bin_sums, bin_true, bin_total, df_thresholds,
    prob_true, prob_pred, self_hist_counts, df_report_metrics,
    \* history: what the first scan left behind, recorded when the scan is run again
    first_scan,
    \* history: df_dataset_writes[k] counts the times row k of df_dataset was written
    df_dataset_writes,
    \* the table written by export_metrics_per_patch_csv
    csv,
    \* CLI_Metrics: the pairs of files, (height, width, nbr_class) of the first pair,
    \* and the exception that ended the run
    files, sample_shape, error,
    \* Statistics: the attributes set by __init__, the warnings logged, and the
    \* position of scan_dataset in the dataset
    bit_depth, self_bins, norm_bins, nbr_batches, warnings, bands_hists, index

inputVars == <<config, dataset>>
posVars == <<dataset_index, i, th>>
scanVars == <<cm_macro, cms_one_class, dict_hist_counts, dict_bin_sums, dict_bin_true,
              dict_bin_total, counts_sample_per_class, df_dataset, cr_cm, cm>>
curveVars == <<vect_classes, dict_prob_true, dict_prob_pred>>
cmVars == <<metrics_by_class, metrics_micro, cms_classes, cm_micro>>
reportVars == <<df_report_classes, df_report_macro, df_report_micro>>
binaryVars == <<cms, hist_counts, bin_sums, bin_true, bin_total, df_thresholds,
                prob_true, prob_pred, self_hist_counts, df_report_metrics>>
patchVars == <<df_dataset_writes, csv>>
cliVars == <<files, sample_shape, error>>
statVars == <<bit_depth, self_bins, norm_bins, nbr_batches, warnings, bands_hists, index>>
vars == <<inputVars, statVars, first_scan, patchVars, cliVars, pc, pulls, posVars, scanVars, curveVars, cmVars, reportVars, binaryVars>>

Unset == <<>>
Classes == 0 .. config.nbr_class - 1
NThresholds == Len(config.threshold_range)
NEdges == Cardinality(DOMAIN config.bins)          \* len(self.bins)
nan_row(names) == [m \in SeqToSet(names) |-> NaN]

\* Metrics_Multiclass.create_data_for_metrics: the three report frames, empty
create_data_for_metrics(n, is_weighted) ==
    [df_report_classes |-> [classes |-> [k \in 0 .. n - 1 |-> nan_row(report_names)]],
     df_report_micro |-> [OA |-> NaN, IoU |-> NaN],
     df_report_macro |->
        [r \in (IF is_weighted THEN {"Average", "Weighted avg", "User weighted avg"}
                ELSE {"Average", "Weighted avg"}) |-> nan_row(headline_names)]]

\* Metrics_Multiclass.__init__
config_multiclass(n, a) ==
    [type_classifier |-> "multiclass",
     nbr_class |-> n,
     threshold |-> a.threshold,
     threshold_range |-> init_threshold_range(a.threshold, a.n_thresholds),
     bins |-> init_bins(a.n_bins),
     weighted |-> init_weighted(a.weights),
     weights |-> init_weights(a.weights, n),
     get_metrics_per_patch |-> a.get_metrics_per_patch]

\* Metrics_Binary.__init__ up to the call of get_metrics_by_threshold
config_binary(a) ==
    [type_classifier |-> "binary",
     nbr_class |-> 2,
     threshold |-> a.threshold,
     threshold_range |-> init_threshold_range_given(a.threshold, a.threshold_range),
     bins |-> init_bins(a.n_bins),
     weighted |-> FALSE,
     weights |-> <<>>,
     get_metrics_per_patch |-> FALSE]

NoScanState ==
    /\ cm_macro = Unset /\ cms_one_class = Unset /\ dict_hist_counts = Unset
    /\ dict_bin_sums = Unset /\ dict_bin_true = Unset /\ dict_bin_total = Unset
    /\ counts_sample_per_class = Unset /\ cr_cm = Unset /\ cm = Unset
    /\ vect_classes = Unset /\ dict_prob_true = Unset /\ dict_prob_pred = Unset
    /\ metrics_by_class = Unset /\ metrics_micro = Unset /\ cms_classes = Unset /\ cm_micro = Unset

NoBinaryState ==
    /\ cms = Unset /\ hist_counts = Unset /\ bin_sums = Unset /\ bin_true = Unset
    /\ bin_total = Unset /\ prob_true = Unset /\ prob_pred = Unset
    /\ self_hist_counts = Unset /\ df_report_metrics = Unset

NoSecondScan == first_scan = Unset

\* the metrics object was not built by CLI_Metrics
NoCli == files = Unset /\ sample_shape = Unset /\ error = Unset

\* no Statistics object is involved
NoStatistics ==
    /\ bit_depth = Unset /\ self_bins = Unset /\ norm_bins = Unset /\ nbr_batches = Unset
    /\ warnings = Unset /\ bands_hists = Unset /\ index = Unset

\* line 122: df_dataset is created with its rows empty; nothing is exported yet
NoPatchOutput == csv = Unset /\ df_dataset_writes = [k \in DOMAIN dataset |-> 0]

\* Metrics_Multiclass.__init__ over one of the given datasets
InitMulticlassOver(datasets) ==
    /\ \E a \in ArgsMulticlass(NbrClassScan) : config = config_multiclass(NbrClassScan, a)
    /\ dataset \in datasets
    /\ pc = "constructed"
    /\ pulls = [k \in DOMAIN dataset |-> 0]
    /\ dataset_index = -1 /\ i = 0 /\ th = 1
    /\ NoScanState /\ NoBinaryState /\ NoSecondScan /\ NoStatistics /\ NoPatchOutput /\ NoCli
    /\ df_thresholds = Unset
    /\ df_dataset = IF config.get_metrics_per_patch THEN [k \in DOMAIN dataset |-> Unset] ELSE Unset
    /\ LET frames == create_data_for_metrics(config.nbr_class, config.weighted)
       IN  /\ df_report_classes = frames.df_report_classes
           /\ df_report_macro = frames.df_report_macro
           /\ df_report_micro = frames.df_report_micro

InitMulticlass == InitMulticlassOver(DatasetsOf(SamplesOf(PixelCasesMulticlass(NbrClassScan))))

\* Metrics_Binary.create_data_for_metrics: df_thresholds, one empty row per threshold
InitBinaryOver(args) ==
    /\ \E a \in args : config = config_binary(a)
    /\ dataset \in DatasetsOf(SamplesOf(PixelCasesBinary))
    /\ pc = "constructed"
    /\ pulls = [k \in DOMAIN dataset |-> 0]
    /\ dataset_index = -1 /\ i = 0 /\ th = 1
    /\ NoScanState /\ NoBinaryState /\ NoSecondScan /\ NoStatistics /\ NoPatchOutput /\ NoCli
    /\ df_thresholds = [k \in 1 .. NThresholds |-> nan_row(metrics_names)]
    /\ df_dataset = Unset
    /\ df_report_classes = Unset /\ df_report_macro = Unset /\ df_report_micro = Unset

InitBinary == InitBinaryOver(ArgsBinary)

Init == InitMulticlass \/ InitBinary

(***************************************************************************)
(* Metrics_Multiclass.scan_dataset                                         *)
(***************************************************************************)
channel(arr, k) == [p \in DOMAIN arr |-> arr[p][k]]
drop_first(arr) == [p \in DOMAIN arr \ {1} |-> arr[p]]

\* the one-vs-rest matrix built from flatten()[1:] of both arrays
one_vs_rest_cm_drop_first(sample, k, thr) ==
    get_confusion_matrix(drop_first(channel(sample.mask, k)),
                         drop_first(binarize_binary(channel(sample.pred, k), thr)), 2, TRUE)

\* lines 194-201: the one-vs-rest 2 x 2 matrix of class k at a threshold
one_vs_rest_cm(sample, k, thr) ==
    get_confusion_matrix(channel(sample.mask, k),
                         binarize_binary(channel(sample.pred, k), thr), 2, TRUE)

\* lines 208-209: the joint matrix of a sample, argmax binarization
joint_cm(sample, n) ==
    LET b == binarize_multiclass(sample.pred, sample.mask)
    IN  get_confusion_matrix(b.mask, b.pred, n, FALSE)

\* the guard of line 205 without its "i == 0"
once_per_sample_every_class(thr, k) == thr = config.threshold

\* line 205: if threshold == self.threshold and i == 0
once_per_sample(thr, k) == thr = config.threshold /\ k = 0

\* a guard that lets every threshold through
once_per_class_every_threshold(thr) == TRUE

\* line 239: if threshold == self.threshold
once_per_class(thr) == thr = config.threshold

\* a row derived from the running total of the scan
patch_cm_running(sample_cm, running_cm) == running_cm

\* line 215: get_metrics_from_cm(cm), cm being the matrix of the sample (line 209),
\* not the running cm_macro
patch_cm(sample_cm, running_cm) == sample_cm

\* lines 215-236: the row of metrics of one sample, from its own joint matrix
patch_row(sample_cm, name_file) ==
    LET res == get_metrics_from_cm(sample_cm, config.nbr_class, config.weighted, config.weights)
        per_class == np_array([k \in Classes |->
                        np_array([m \in SeqToSet(report_names) |-> res.metrics_by_class[k][m]])])
        nw == Min(config.nbr_class, Len(config.weights))
        mean_metric(m) ==
            RSumOver(0 .. nw - 1,
                     [k \in 0 .. nw - 1 |-> RMul(FromInt(config.weights[k + 1]), per_class[k][m])])
        mean == np_array([m \in SeqToSet(report_names) |->
                    RDiv(mean_metric(m), FromInt(config.nbr_class))])
    IN  [name_file |-> name_file,
         OA |-> res.metrics_micro["Precision"],
         micro_IoU |-> res.metrics_micro["IoU"],
         by_class |-> per_class,
         mean |-> mean,
         macro |-> [m \in SeqToSet(headline_names) |-> mean[m]]]

\* the update with the true mass summed from the predictions instead of the mask
calibration_update_true_from_pred(pred_hist, mask_hist, bins) ==
    LET m == Cardinality(DOMAIN bins)
        d == np_array(np_digitize(pred_hist, bins))
        binids == [p \in DOMAIN pred_hist |-> d[p] - 1]
    IN  [hist_counts |-> np_array(np_histogram(pred_hist, bins)),
         bin_sums |-> np_array(np_bincount_w(binids, pred_hist, m)),
         bin_true |-> np_array(np_bincount_w(binids, pred_hist, m)),
         bin_total |-> np_array(np_bincount(binids, m))]

\* lines 246-257 (and metrics_binary.py 74-84): what one array of predictions and
\* its mask add to the histogram and to the three per-bin running sums
calibration_update(pred_hist, mask_hist, bins) ==
    LET m == Cardinality(DOMAIN bins)
        d == np_array(np_digitize(pred_hist, bins))
        binids == [p \in DOMAIN pred_hist |-> d[p] - 1]
    IN  [hist_counts |-> np_array(np_histogram(pred_hist, bins)),
         bin_sums |-> np_array(np_bincount_w(binids, pred_hist, m)),
         bin_true |-> np_array(np_bincount_w(binids, [p \in DOMAIN mask_hist |-> FromInt(mask_hist[p])], m)),
         bin_total |-> np_array(np_bincount(binids, m))]

\* an accumulator that keeps what an earlier scan left in it
kept_if_set(old, new) == IF old = Unset THEN new ELSE old

\* lines 175-187 (and 54-57 of the binary run): each accumulator name is bound to a
\* new array of zeros, whatever it held before
assigned(old, new) == new

\* lines 175-187: the accumulators of scan_dataset at its start
scan_dataset_start ==
    /\ cm_macro' = assigned(cm_macro, np_zeros2(config.nbr_class))
    /\ cms_one_class' = [t \in 1 .. NThresholds |-> [k \in Classes |-> np_zeros2(2)]]
    /\ dict_prob_true' = <<>> /\ dict_prob_pred' = <<>>
    /\ dict_hist_counts' = assigned(dict_hist_counts, [k \in Classes |-> np_rzeros(NEdges - 1)])
    /\ dict_bin_sums' = assigned(dict_bin_sums, [k \in Classes |-> np_rzeros(NEdges)])
    /\ dict_bin_true' = assigned(dict_bin_true, [k \in Classes |-> np_rzeros(NEdges)])
    /\ dict_bin_total' = assigned(dict_bin_total, [k \in Classes |-> np_zeros(NEdges)])
    /\ counts_sample_per_class' = assigned(counts_sample_per_class, [k \in Classes |-> 0])

\* run, line 129: scan_dataset is entered
ScanInit ==
    /\ pc = "constructed"
    /\ config.type_classifier = "multiclass"
    /\ pc' = "scan"
    /\ scan_dataset_start
    /\ UNCHANGED <<inputVars, statVars, first_scan, patchVars, cliVars, pulls, posVars, df_dataset, cr_cm, cm, vect_classes,
                   cmVars, reportVars, binaryVars>>

\* a loop that may pull the next sample while the class loop of the last one runs
may_pull_mid_body(p) == p \in {"scan", "body"}

\* lines 189-191: the sample loop encloses the class loop, so the next sample is
\* pulled only between two bodies
may_pull(p) == p = "scan"

\* line 189-190: the for loop pulls the next sample of the stream
PullSample ==
    /\ may_pull(pc)
    /\ dataset_index + 1 < len(dataset)
    /\ dataset_index' = dataset_index + 1
    /\ pulls' = [pulls EXCEPT ![dataset_index + 1] = @ + 1]
    /\ i' = 0
    /\ pc' = "body"
    /\ UNCHANGED <<inputVars, statVars, first_scan, patchVars, cliVars, th, scanVars, curveVars, cmVars, reportVars, binaryVars>>

\* lines 194-195: mask[:, :, i] and pred[:, :, i] exist
has_channel(sample, k) ==
    \A p \in DOMAIN sample.mask : k \in DOMAIN sample.mask[p] /\ k \in DOMAIN sample.pred[p]

\* lines 191-257: for class i, the whole loop over the threshold range
ScanClass ==
    /\ pc = "body"
    /\ has_channel(dataset[dataset_index], i)
    /\ \E sample \in {dataset[dataset_index]} :
       \E one \in {[t \in 1 .. NThresholds |->
                      np_array(one_vs_rest_cm(sample, i, config.threshold_range[t]))]} :
       \E joint \in {np_array(joint_cm(sample, config.nbr_class))} :
       \E cal \in {calibration_update(channel(sample.pred, i), channel(sample.mask, i), config.bins)} :
       \* how many thresholds of the range pass the guard of line 205, and of line 239
       LET n_joint == Cardinality({t \in 1 .. NThresholds :
                                      once_per_sample(config.threshold_range[t], i)})
           n_cal == Cardinality({t \in 1 .. NThresholds :
                                    once_per_class(config.threshold_range[t])})
       IN  \* line 197, once per threshold
           /\ counts_sample_per_class' =
                [counts_sample_per_class EXCEPT
                    ![i] = @ + NThresholds * np_count_nonzero(channel(sample.mask, i))]
           \* lines 199-202
           /\ cr_cm' = one
           /\ cms_one_class' = [t \in 1 .. NThresholds |->
                                   [cms_one_class[t] EXCEPT ![i] = MatAdd(@, one[t])]]
           \* lines 205-236, at each threshold that passes the guard
           /\ IF n_joint > 0
              THEN /\ cm' = joint
                   /\ cm_macro' = MatAdd(cm_macro, MatScale(joint, n_joint))
                   /\ df_dataset' = IF config.get_metrics_per_patch
                                    THEN [df_dataset EXCEPT ![dataset_index] =
                                             patch_row(patch_cm(joint, cm_macro'), sample.name_file)]
                                    ELSE df_dataset
                   /\ df_dataset_writes' = IF config.get_metrics_per_patch
                                           THEN [df_dataset_writes EXCEPT ![dataset_index] = @ + n_joint]
                                           ELSE df_dataset_writes
              ELSE UNCHANGED <<cm, cm_macro, df_dataset, df_dataset_writes>>
           \* lines 239-257, at each threshold that passes the guard
           /\ dict_hist_counts' = [dict_hist_counts EXCEPT
                  ![i] = [b \in DOMAIN @ |-> RAdd(@[b], FromInt(n_cal * cal.hist_counts[b]))]]
           /\ dict_bin_sums' = [dict_bin_sums EXCEPT
                  ![i] = [b \in DOMAIN @ |-> RAdd(@[b], RMul(FromInt(n_cal), cal.bin_sums[b]))]]
           /\ dict_bin_true' = [dict_bin_true EXCEPT
                  ![i] = [b \in DOMAIN @ |-> RAdd(@[b], RMul(FromInt(n_cal), cal.bin_true[b]))]]
           /\ dict_bin_total' = [dict_bin_total EXCEPT
                  ![i] = [b \in DOMAIN @ |-> @[b] + n_cal * cal.bin_total[b]]]
    /\ IF i + 1 < config.nbr_class
       THEN /\ i' = i + 1 /\ pc' = "body"
       ELSE /\ i' = i /\ pc' = "scan"
    /\ UNCHANGED <<inputVars, statVars, first_scan, csv, cliVars, pulls, dataset_index, th, curveVars, cmVars, reportVars, binaryVars>>

\* arr / total over all the bins, the empty ones too
RECURSIVE nonzero_ratio_all_bins(_, _, _)
nonzero_ratio_all_bins(arr, total, b) ==
    IF b < 0 THEN <<>>
    ELSE nonzero_ratio_all_bins(arr, total, b - 1) \o <<RDiv(arr[b], FromInt(total[b]))>>

\* the entries of arr at the bins whose count is not 0, divided by the count, in bin order
RECURSIVE nonzero_ratio(_, _, _)
nonzero_ratio(arr, total, b) ==
    IF b < 0 THEN <<>>
    ELSE nonzero_ratio(arr, total, b - 1) \o
         (IF total[b] # 0 THEN <<RDiv(arr[b], FromInt(total[b]))>> ELSE <<>>)

\* lines 259-280: the curve vectors and calibration points; the loop is over
ScanFinalize ==
    /\ pc = "scan"
    /\ dataset_index + 1 = len(dataset)
    /\ pc' = "scanned"
    /\ cms_one_class' = [t \in 1 .. NThresholds |-> [k \in Classes |-> metrics_of_cm2(cms_one_class[t][k])]]
    /\ dict_prob_true' = [k \in Classes |-> nonzero_ratio(dict_bin_true[k], dict_bin_total[k], NEdges - 1)]
    /\ dict_prob_pred' = [k \in Classes |-> nonzero_ratio(dict_bin_sums[k], dict_bin_total[k], NEdges - 1)]
    /\ vect_classes' = [k \in Classes |->
            [m \in {"Recall", "FPR", "Precision"} |->
                [t \in 1 .. NThresholds |-> cms_one_class'[t][k][m]]]]
    /\ UNCHANGED <<inputVars, statVars, first_scan, patchVars, cliVars, pulls, posVars, cm_macro, dict_hist_counts, dict_bin_sums, dict_bin_true,
                   dict_bin_total, counts_sample_per_class, df_dataset, cr_cm, cm,
                   cmVars, reportVars, binaryVars>>

\* what scan_dataset leaves on the object, and returns
scan_accumulators ==
    [cm_macro |-> cm_macro, cms_one_class |-> cms_one_class,
     dict_hist_counts |-> dict_hist_counts, dict_bin_sums |-> dict_bin_sums,
     dict_bin_true |-> dict_bin_true, dict_bin_total |-> dict_bin_total,
     counts_sample_per_class |-> counts_sample_per_class,
     dict_prob_true |-> dict_prob_true, dict_prob_pred |-> dict_prob_pred,
     vect_classes |-> vect_classes, df_dataset |-> df_dataset]

\* scan_dataset called once more on the same object: lines 175-187 again, and the
\* for loop of line 189 starts a new enumeration of self.dataset
ScanAgain ==
    /\ pc = "scanned"
    /\ config.type_classifier = "multiclass"
    /\ first_scan = Unset
    /\ first_scan' = scan_accumulators
    /\ scan_dataset_start
    /\ dataset_index' = -1 /\ i' = 0
    /\ pc' = "scan"
    /\ UNCHANGED <<inputVars, statVars, patchVars, cliVars, pulls, th, df_dataset, cr_cm, cm, vect_classes,
                   cmVars, reportVars, binaryVars>>

(***************************************************************************)
(* Metrics_Multiclass.run after the scan                                   *)
(***************************************************************************)
\* run, lines 132-133
GetMetricsFromCm ==
    /\ pc = "scanned"
    /\ config.type_classifier = "multiclass"
    /\ \E res \in {get_metrics_from_cm(cm_macro, config.nbr_class, config.weighted, config.weights)} :
           /\ metrics_by_class' = res.metrics_by_class
           /\ metrics_micro' = res.metrics_micro
           /\ cms_classes' = res.cms_classes
           /\ cm_micro' = res.cm_micro
    /\ pc' = "metrics"
    /\ UNCHANGED <<inputVars, statVars, first_scan, patchVars, cliVars, pulls, posVars, scanVars, curveVars, reportVars, binaryVars>>

\* lines 350-351: list(self.metrics_by_class[class_i].values())[:-1]
class_rows(by_class) ==
    [k \in DOMAIN by_class |-> [m \in SeqToSet(report_names) |-> by_class[k][m]]]

\* the Overall row as the sum of the class rows, not divided
overall_row_sum(rows) ==
    [m \in SeqToSet(report_names) |->
        RSumOver(DOMAIN rows, [k \in DOMAIN rows |-> rows[k][m]])]

\* line 352: self.df_report_classes.mean()
overall_row(rows) ==
    [m \in SeqToSet(report_names) |->
        RDiv(RSumOver(DOMAIN rows, [k \in DOMAIN rows |-> rows[k][m]]),
             FromInt(Cardinality(DOMAIN rows)))]

\* lines 354-357
average_row(overall) == [m \in SeqToSet(headline_names) |-> overall[m]]

\* the weighted average divided by the number of classes
weighted_avg_by_nbr_class(rows, counts, m) ==
    np_round2(RDiv(RSumOver(DOMAIN rows, [k \in DOMAIN rows |-> RMul(rows[k][m], FromInt(counts[k]))]),
                   FromInt(Cardinality(DOMAIN rows))))

\* lines 359-369: 'Weighted avg' of one metric
weighted_avg(rows, counts, m) ==
    LET total_positive_obs == SumOver(DOMAIN counts, counts)
    IN  np_round2(RDiv(RSumOver(DOMAIN rows, [k \in DOMAIN rows |-> RMul(rows[k][m], FromInt(counts[k]))]),
                       FromInt(total_positive_obs)))

\* the user weighted average divided by the sum of the weights
user_weighted_avg_by_weight_sum(rows, w, n, m) ==
    np_round2(RDiv(RSumOver(DOMAIN rows, [k \in DOMAIN rows |-> RMul(rows[k][m], FromInt(w[k + 1]))]),
                   FromInt(SumOver(DOMAIN w, w))))

\* lines 366-373: 'User weighted avg' of one metric
user_weighted_avg(rows, w, n, m) ==
    np_round2(RDiv(RSumOver(DOMAIN rows, [k \in DOMAIN rows |-> RMul(rows[k][m], FromInt(w[k + 1]))]),
                   FromInt(n)))

\* Metrics_Multiclass.metrics_to_df_reports, run line 136
MetricsToDfReports ==
    /\ pc = "metrics"
    /\ \E rows \in {class_rows(metrics_by_class)} :
       \E overall \in {overall_row(rows)} :
       LET total_positive_obs == SumOver(DOMAIN counts_sample_per_class, counts_sample_per_class)
           macro_row(r) ==
               CASE r = "Average" -> average_row(overall)
                 [] r = "Weighted avg" ->
                       [m \in SeqToSet(headline_names) |-> weighted_avg(rows, counts_sample_per_class, m)]
                 [] r = "User weighted avg" ->
                       [m \in SeqToSet(headline_names) |->
                           user_weighted_avg(rows, config.weights, config.nbr_class, m)]
       IN  /\ df_report_classes' = [classes |-> rows, Overall |-> overall]
           /\ \/ \* the rows are written; weighted_avg / 0 is a non-finite float
                 /\ df_report_macro' = [r \in DOMAIN df_report_macro |-> macro_row(r)]
                 /\ df_report_micro' = [OA |-> metrics_micro["Precision"], IoU |-> metrics_micro["IoU"]]
                 /\ pc' = IF config.get_metrics_per_patch THEN "reported" ELSE "done"
              \/ \* weighted_avg / 0 on python numbers raises ZeroDivisionError at line 369
                 /\ total_positive_obs = 0
                 /\ df_report_macro' = [df_report_macro EXCEPT !["Average"] = average_row(overall)]
                 /\ df_report_micro' = df_report_micro
                 /\ pc' = "error"
    /\ UNCHANGED <<inputVars, statVars, first_scan, patchVars, cliVars, pulls, posVars, scanVars, curveVars, cmVars, binaryVars>>

\* run, lines 139-140, and export_metrics_per_patch_csv, line 597: df_dataset is
\* written out when per-patch metrics were asked for
ExportMetricsPerPatchCsv ==
    /\ pc = "reported"
    /\ pc' = "done"
    /\ csv' = IF config.get_metrics_per_patch THEN df_dataset ELSE csv
    /\ UNCHANGED <<inputVars, statVars, first_scan, df_dataset_writes, cliVars, pulls, posVars, scanVars, curveVars, cmVars, reportVars, binaryVars>>

(***************************************************************************)
(* Metrics_Binary.get_metrics_by_threshold                                 *)
(***************************************************************************)
\* lines 64-66: the 2 x 2 matrix of a sample at a threshold, [[tp, fn], [fp, tn]]
binary_cm(sample, thr) ==
    get_confusion_matrix(sample.mask, binarize_binary(sample.pred, thr), 2, TRUE)

\* line 70: if threshold == self.threshold_range[0]
first_threshold_only(thr) == thr = config.threshold_range[1]

\* lines 54-57: the locals of get_metrics_by_threshold at its start
get_metrics_by_threshold_start ==
    /\ hist_counts' = assigned(hist_counts, np_zeros(NEdges - 1))
    /\ bin_sums' = assigned(bin_sums, np_rzeros(NEdges))
    /\ bin_true' = assigned(bin_true, np_rzeros(NEdges))
    /\ bin_total' = assigned(bin_total, np_zeros(NEdges))
    /\ th' = 1
    /\ pc' = "thresholds"

\* __init__, line 42: get_metrics_by_threshold is entered
BinInit ==
    /\ pc = "constructed"
    /\ config.type_classifier = "binary"
    /\ get_metrics_by_threshold_start
    /\ UNCHANGED <<inputVars, statVars, first_scan, patchVars, cliVars, pulls, dataset_index, i, scanVars, curveVars, cmVars, reportVars,
                   cms, df_thresholds, prob_true, prob_pred, self_hist_counts, df_report_metrics>>

\* lines 59-60: the next threshold starts with an empty matrix and a new pass over the samples
BinThresholdStart ==
    /\ pc = "thresholds"
    /\ th <= NThresholds
    /\ LET threshold == config.threshold_range[th]
       IN  cms' = [t \in DOMAIN cms \cup {threshold} |->
                      IF t = threshold THEN np_zeros2(config.nbr_class) ELSE cms[t]]
    /\ dataset_index' = -1
    /\ pc' = "samples"
    /\ UNCHANGED <<inputVars, statVars, first_scan, patchVars, cliVars, pulls, i, th, scanVars, curveVars, cmVars, reportVars,
                   hist_counts, bin_sums, bin_true, bin_total, df_thresholds,
                   prob_true, prob_pred, self_hist_counts, df_report_metrics>>

\* lines 61-84: zip(self.masks, self.preds) yields the next sample, and the loop body
BinSample ==
    /\ pc = "samples"
    /\ dataset_index + 1 < len(dataset)
    /\ dataset_index' = dataset_index + 1
    /\ pulls' = [pulls EXCEPT ![dataset_index + 1] = @ + 1]
    /\ \E sample \in {dataset[dataset_index + 1]} :
       \E threshold \in {config.threshold_range[th]} :
       \E one \in {np_array(binary_cm(sample, threshold))} :
       \E cal \in {calibration_update(sample.pred, sample.mask, config.bins)} :
           /\ cm' = one
           /\ cms' = [cms EXCEPT ![threshold] = MatAdd(@, one)]
           /\ IF first_threshold_only(threshold)
              THEN /\ hist_counts' = VecAdd(hist_counts, cal.hist_counts)
                   /\ bin_sums' = RVecAdd(bin_sums, cal.bin_sums)
                   /\ bin_true' = RVecAdd(bin_true, cal.bin_true)
                   /\ bin_total' = VecAdd(bin_total, cal.bin_total)
              ELSE UNCHANGED <<hist_counts, bin_sums, bin_true, bin_total>>
    /\ UNCHANGED <<inputVars, statVars, first_scan, patchVars, cliVars, pc, i, th, cm_macro, cms_one_class, dict_hist_counts, dict_bin_sums,
                   dict_bin_true, dict_bin_total, counts_sample_per_class, df_dataset, cr_cm,
                   curveVars, cmVars, reportVars, df_thresholds,
                   prob_true, prob_pred, self_hist_counts, df_report_metrics>>

\* lines 86-89 (get_metrics_from_cm, lines 100-102): the row of the threshold
BinThresholdEnd ==
    /\ pc = "samples"
    /\ dataset_index + 1 = len(dataset)
    /\ \E threshold \in {config.threshold_range[th]} :
       \E cr_metrics \in {metrics_of_cm2(cms[threshold])} :
           df_thresholds' = [k \in DOMAIN df_thresholds |->
                                IF config.threshold_range[k] = threshold THEN cr_metrics
                                ELSE df_thresholds[k]]
    /\ th' = th + 1
    /\ pc' = "thresholds"
    /\ UNCHANGED <<inputVars, statVars, first_scan, patchVars, cliVars, pulls, dataset_index, i, scanVars, curveVars, cmVars, reportVars,
                   cms, hist_counts, bin_sums, bin_true, bin_total,
                   prob_true, prob_pred, self_hist_counts, df_report_metrics>>

\* lines 91-98: the normalized histogram, the calibration points and the report row
BinFinalize ==
    /\ pc = "thresholds"
    /\ th > NThresholds
    /\ LET total == SumOver(DOMAIN hist_counts, hist_counts)
           at_threshold == {k \in DOMAIN df_thresholds : config.threshold_range[k] = config.threshold}
       IN  /\ self_hist_counts' = [b \in DOMAIN hist_counts |-> Rat(hist_counts[b], total)]
           /\ prob_true' = nonzero_ratio(bin_true, bin_total, NEdges - 1)
           /\ prob_pred' = nonzero_ratio(bin_sums, bin_total, NEdges - 1)
           /\ IF Cardinality(at_threshold) = 1
              THEN /\ df_report_metrics' =
                        LET k == CHOOSE x \in at_threshold : TRUE
                        IN  [m \in SeqToSet(report_names) |-> df_thresholds[k][m]]
                   /\ pc' = "done"
              ELSE \* the selection does not have the shape of one row: the assignment raises
                   /\ df_report_metrics' = df_report_metrics
                   /\ pc' = "error"
    /\ UNCHANGED <<inputVars, statVars, first_scan, patchVars, cliVars, pulls, posVars, scanVars, curveVars, cmVars, reportVars,
                   cms, hist_counts, bin_sums, bin_true, bin_total, df_thresholds>>

\* what get_metrics_by_threshold leaves on the object
binary_accumulators ==
    [cms |-> cms, hist_counts |-> hist_counts, bin_sums |-> bin_sums, bin_true |-> bin_true,
     bin_total |-> bin_total, df_thresholds |-> df_thresholds, prob_true |-> prob_true,
     prob_pred |-> prob_pred, self_hist_counts |-> self_hist_counts,
     df_report_metrics |-> df_report_metrics]

\* get_metrics_by_threshold called once more on the same object: lines 54-57 again
BinAgain ==
    /\ pc = "done"
    /\ config.type_classifier = "binary"
    /\ first_scan = Unset
    /\ first_scan' = binary_accumulators
    /\ get_metrics_by_threshold_start
    /\ UNCHANGED <<inputVars, statVars, patchVars, cliVars, pulls, dataset_index, i, scanVars, curveVars, cmVars, reportVars,
                   cms, df_thresholds, prob_true, prob_pred, self_hist_counts, df_report_metrics>>

(***************************************************************************)
(* Specifications                                                          *)
(***************************************************************************)
Next ==
    \/ ScanInit
    \/ PullSample
    \/ ScanClass
    \/ ScanFinalize
    \/ GetMetricsFromCm
    \/ MetricsToDfReports
    \/ ExportMetricsPerPatchCsv
    \/ BinInit
    \/ BinThresholdStart
    \/ BinSample
    \/ BinThresholdEnd
    \/ BinFinalize

Spec == Init /\ [][Next]_vars

(***************************************************************************)
(* get_metrics_from_cm on its own: every joint matrix of up to MaxPixelsCm *)
(* labelled pixels over 2 .. MaxClassCm classes, with and without weights. *)
(* It reads its argument and nbr_class, weighted, weights only; the other  *)
(* attributes are left unset.                                              *)
(***************************************************************************)
\* the confusion matrices of at most k labelled pixels over n classes
RECURSIVE labelled_cms(_, _)
labelled_cms(n, k) ==
    IF k = 0 THEN {np_array(np_zeros2(n))}
    ELSE LET fewer == labelled_cms(n, k - 1)
         IN  fewer \cup {[m EXCEPT ![r][c] = @ + 1] : m \in fewer, r \in 0 .. n - 1, c \in 0 .. n - 1}

\* weights: None, given and uniform, given and not uniform
ArgsCm(n) ==
    { [weights |-> w, threshold |-> Half, n_thresholds |-> 3, n_bins |-> 2,
       get_metrics_per_patch |-> FALSE] :
        w \in {<<>>, [k \in 1 .. n |-> 1], [k \in 1 .. n |-> IF k = 1 THEN 2 ELSE 1]} }

InitCm ==
    /\ \E n \in 2 .. MaxClassCm :
           /\ \E a \in ArgsCm(n) : config = config_multiclass(n, a)
           /\ cm_macro \in labelled_cms(n, MaxPixelsCm)
    /\ dataset = <<>> /\ pulls = <<>>
    /\ pc = "scanned"
    /\ dataset_index = -1 /\ i = 0 /\ th = 1
    /\ cms_one_class = Unset /\ dict_hist_counts = Unset
    /\ dict_bin_sums = Unset /\ dict_bin_true = Unset /\ dict_bin_total = Unset
    /\ counts_sample_per_class = Unset /\ cr_cm = Unset /\ cm = Unset
    /\ vect_classes = Unset /\ dict_prob_true = Unset /\ dict_prob_pred = Unset
    /\ metrics_by_class = Unset /\ metrics_micro = Unset /\ cms_classes = Unset /\ cm_micro = Unset
    /\ NoBinaryState /\ NoSecondScan /\ NoStatistics /\ NoPatchOutput /\ NoCli
    /\ df_thresholds = Unset /\ df_dataset = Unset
    /\ LET frames == create_data_for_metrics(config.nbr_class, config.weighted)
       IN  /\ df_report_classes = frames.df_report_classes
           /\ df_report_macro = frames.df_report_macro
           /\ df_report_micro = frames.df_report_micro

NextCm == GetMetricsFromCm

SpecCm == InitCm /\ [][NextCm]_vars

(***************************************************************************)
(* Metrics_Multiclass.run over datasets whose prediction is the mask at    *)
(* every pixel, but for one kind of pixel that is undecided.               *)
(***************************************************************************)
\* one pixel whose prediction is its mask, for each class, and one that is not
PixelCasesPerfect(n) ==
    { [mask |-> OneHot(n, k), pred |-> Peak(n, k)] : k \in 0 .. n - 1 }
        \cup { [mask |-> OneHot(n, 1), pred |-> Flat(n)] }

InitPerfect == InitMulticlassOver(DatasetsOf(SamplesOf(PixelCasesPerfect(NbrClassScan))))

NextMulticlass ==
    \/ ScanInit
    \/ PullSample
    \/ ScanClass
    \/ ScanFinalize
    \/ GetMetricsFromCm
    \/ MetricsToDfReports
    \/ ExportMetricsPerPatchCsv

SpecPerfect == InitPerfect /\ [][NextMulticlass]_vars

\* the multiclass run with get_metrics_per_patch set
InitPerPatch == InitMulticlass /\ config.get_metrics_per_patch

SpecPerPatch == InitPerPatch /\ [][NextMulticlass]_vars

\* the scan of each class, run a second time on the object it has already filled
NextRescan ==
    \/ ScanInit
    \/ PullSample
    \/ ScanClass
    \/ ScanFinalize
    \/ ScanAgain
    \/ BinInit
    \/ BinThresholdStart
    \/ BinSample
    \/ BinThresholdEnd
    \/ BinFinalize
    \/ BinAgain

SpecRescan == Init /\ [][NextRescan]_vars

\* a caller of Metrics_Binary whose range leaves out the operating threshold
ArgsBinaryOffRange ==
    { [threshold |-> Rat(3, 4), threshold_range |-> <<Zero, One>>, n_bins |-> 2] }

InitThresholds == InitMulticlass \/ InitBinaryOver(ArgsBinaryOffRange)

SpecThresholds == InitThresholds /\ [][Next]_vars

(***************************************************************************)
(* The plot and export methods called on the object after run              *)
(***************************************************************************)
\* lines 454-455: every class's histogram divided by the total of the first class
normalize_hist_counts(hist_counts_by_class) ==
    LET first == hist_counts_by_class[0]
        total_pixel == RSumOver(DOMAIN first, first)
    IN  [k \in DOMAIN hist_counts_by_class |->
            [b \in DOMAIN hist_counts_by_class[k] |-> RDiv(hist_counts_by_class[k][b], total_pixel)]]

\* plot_calibration_curve, lines 453-466: self.dict_hist_counts is bound to the
\* normalized histograms, which are then exported or drawn
PlotCalibrationCurve ==
    /\ pc = "done"
    /\ config.type_classifier = "multiclass"
    /\ dict_hist_counts' = normalize_hist_counts(dict_hist_counts)
    /\ pc' = "plotted"
    /\ UNCHANGED <<inputVars, statVars, first_scan, patchVars, cliVars, pulls, posVars, cm_macro, cms_one_class,
                   dict_bin_sums, dict_bin_true, dict_bin_total, counts_sample_per_class,
                   df_dataset, cr_cm, cm, curveVars, cmVars, reportVars, binaryVars>>

NextPlots ==
    \/ ScanInit
    \/ PullSample
    \/ ScanClass
    \/ ScanFinalize
    \/ GetMetricsFromCm
    \/ MetricsToDfReports
    \/ ExportMetricsPerPatchCsv
    \/ PlotCalibrationCurve

SpecPlots == InitMulticlass /\ [][NextPlots]_vars

(***************************************************************************)
(* CLI_Metrics: the files are loaded, then the binary metrics are run      *)
(***************************************************************************)
\* np.array(Image.open(f)) of a single-band file: an array of shape (rows, columns)
mask_image(shape) ==
    [r \in 0 .. shape[1] - 1 |-> [c \in 0 .. shape[2] - 1 |-> IF r = 0 THEN 1 ELSE 0]]
pred_image(shape) ==
    [r \in 0 .. shape[1] - 1 |-> [c \in 0 .. shape[2] - 1 |-> Rat(r + c + 1, 4)]]

\* a pair of files of the same name: the shapes of the mask and of the prediction
FileCases ==
    { [mask_shape |-> <<2, 1>>, pred_shape |-> <<2, 1>>],      \* the shapes agree
      [mask_shape |-> <<2, 1>>, pred_shape |-> <<1, 1>>],      \* a one-pixel prediction
      [mask_shape |-> <<2, 1>>, pred_shape |-> <<2, 2>>],      \* a wider prediction
      [mask_shape |-> <<1, 1>>, pred_shape |-> <<2, 1>>] }     \* a one-pixel mask

\* list_files_from_dir, lines 102-111: the pairs of equal names, sorted
FilesOf(cases) ==
    { [k \in 0 .. Len(sq) - 1 |->
          [name |-> k, mask_shape |-> sq[k + 1].mask_shape, pred_shape |-> sq[k + 1].pred_shape]] :
        sq \in UNION { [1 .. m -> cases] : m \in 1 .. MaxSamples } }

\* numpy, masks[index] = array: the array is broadcast to the shape of the slot when
\* each of its dimensions equals the slot's or is 1
can_broadcast(shape, slot) == \A d \in 1 .. 2 : shape[d] = slot[d] \/ shape[d] = 1

\* the slot after the assignment, flattened row by row
np_broadcast_flat(arr, shape, slot) ==
    [p \in 0 .. slot[1] * slot[2] - 1 |->
        arr[IF shape[1] = 1 THEN 0 ELSE p \div slot[2]][IF shape[2] = 1 THEN 0 ELSE p % slot[2]]]

\* CLI_Metrics.__init__, lines 53-61, for a binary classifier
InitCli ==
    /\ \E a \in ArgsBinary : config = config_binary(a)
    /\ files \in FilesOf(FileCases)
    /\ sample_shape = Unset /\ error = Unset
    /\ dataset = <<>> /\ pulls = <<>>
    /\ pc = "cli"
    /\ dataset_index = -1 /\ i = 0 /\ th = 1
    /\ NoScanState /\ NoBinaryState /\ NoSecondScan /\ NoStatistics /\ NoPatchOutput
    /\ df_thresholds = Unset /\ df_dataset = Unset
    /\ df_report_classes = Unset /\ df_report_macro = Unset /\ df_report_micro = Unset

\* get_samples_shapes, lines 113-126: the first pair of files only
GetSamplesShapes ==
    /\ pc = "cli"
    /\ IF files[0].mask_shape = files[0].pred_shape
       THEN /\ sample_shape' = [height |-> files[0].mask_shape[1],
                                width |-> files[0].mask_shape[2],
                                nbr_class |-> 2]
            /\ error' = error
            /\ pc' = "load"
       ELSE /\ error' = [type |-> "AssertionError",
                         message |-> "Mask shape and prediction shape should be the same.",
                         samples |-> {}]
            /\ sample_shape' = sample_shape
            /\ pc' = "error"
    /\ UNCHANGED <<inputVars, statVars, first_scan, patchVars, files, pulls, posVars, scanVars, curveVars,
                   cmVars, reportVars, binaryVars>>

\* get_array_from_files, lines 144-152: the body of the loop for the next pair
LoadSample ==
    /\ pc = "load"
    /\ dataset_index + 1 < len(files)
    /\ LET f == files[dataset_index + 1]
           slot == <<sample_shape.height, sample_shape.width>>
       IN  IF can_broadcast(f.mask_shape, slot) /\ can_broadcast(f.pred_shape, slot)
           THEN /\ dataset' = [k \in 0 .. dataset_index + 1 |->
                                  IF k <= dataset_index THEN dataset[k]
                                  ELSE [mask |-> np_broadcast_flat(mask_image(f.mask_shape),
                                                                   f.mask_shape, slot),
                                        pred |-> np_broadcast_flat(pred_image(f.pred_shape),
                                                                   f.pred_shape, slot),
                                        name_file |-> f.name]]
                /\ dataset_index' = dataset_index + 1
                /\ UNCHANGED <<pc, error>>
           ELSE /\ error' = [type |-> "ValueError",
                             message |-> "could not broadcast input array",
                             samples |-> {}]
                /\ pc' = "error"
                /\ UNCHANGED <<dataset, dataset_index>>
    /\ UNCHANGED <<config, statVars, first_scan, patchVars, files, sample_shape, pulls, i, th, scanVars,
                   curveVars, cmVars, reportVars, binaryVars>>

\* __init__, lines 63-69: the metrics object is built on the arrays
MetricsFactory ==
    /\ pc = "load"
    /\ dataset_index + 1 = len(files)
    /\ pc' = "constructed"
    /\ dataset_index' = -1
    /\ pulls' = [k \in DOMAIN dataset |-> 0]
    /\ df_thresholds' = [k \in 1 .. NThresholds |-> nan_row(metrics_names)]
    /\ UNCHANGED <<inputVars, statVars, first_scan, patchVars, cliVars, i, th, scanVars, curveVars, cmVars,
                   reportVars, cms, hist_counts, bin_sums, bin_true, bin_total,
                   prob_true, prob_pred, self_hist_counts, df_report_metrics>>

NextCli ==
    \/ GetSamplesShapes
    \/ LoadSample
    \/ MetricsFactory
    \/ BinInit
    \/ BinThresholdStart
    \/ BinSample
    \/ BinThresholdEnd
    \/ BinFinalize

SpecCli == InitCli /\ [][NextCli]_vars

(***************************************************************************)
(* A scan that stops on a sample                                           *)
(***************************************************************************)
\* a sample whose prediction array has no channel
TruncatedSamples(n) ==
    { [mask |-> [p \in Pixels |-> OneHot(n, 0)], pred |-> [p \in Pixels |-> <<>>]] }

InitAbort ==
    InitMulticlassOver(DatasetsOf(SamplesOf(PixelCasesMulticlass(NbrClassScan))
                                     \cup TruncatedSamples(NbrClassScan)))

\* lines 194-195: the slice of a channel the array does not have raises, inside
\* scan_dataset and so inside run (lines 124-129), which catches nothing
ScanClassRaises ==
    /\ pc = "body"
    /\ ~has_channel(dataset[dataset_index], i)
    /\ error' = [type |-> "IndexError",
                 message |-> "index is out of bounds for axis 2",
                 samples |-> {}]
    /\ pc' = "error"
    /\ UNCHANGED <<inputVars, statVars, first_scan, patchVars, files, sample_shape, pulls, posVars,
                   scanVars, curveVars, cmVars, reportVars, binaryVars>>

NextAbort ==
    \/ ScanInit
    \/ PullSample
    \/ ScanClass
    \/ ScanClassRaises
    \/ ScanFinalize
    \/ GetMetricsFromCm
    \/ MetricsToDfReports
    \/ ExportMetricsPerPatchCsv

SpecAbort == InitAbort /\ [][NextAbort]_vars

(***************************************************************************)
(* Statistics (odeon/commons/statistics.py)                                *)
(*                                                                         *)
(* One image band and two mask bands.  The standard deviation of a band    *)
(* has no exact rational value and is left out of the rows of df_dataset;  *)
(* compute_stats and the report only read what the scan collected.         *)
(***************************************************************************)
BIT_DEPTH == "8 bits"

\* lines 86-90
depth_dict == [t \in {"keep", "8 bits", "12 bits", "14 bits", "16 bits"} |->
                 CASE t = "keep" -> 1
                   [] t = "8 bits" -> 255
                   [] t = "12 bits" -> 4095
                   [] t = "14 bits" -> 16383
                   [] t = "16 bits" -> 65535]

\* lines 92-98, with the fallback on another tag than the default one
checked_bit_depth_16_bits(tag) == IF tag \in DOMAIN depth_dict THEN tag ELSE "16 bits"

\* lines 92-98: a tag the dictionary does not know is replaced by the default one
checked_bit_depth(tag) == IF tag \in DOMAIN depth_dict THEN tag ELSE BIT_DEPTH

\* line 105 left out
batch_size_unchecked(batch_size, length) == TRUE

\* line 105: the assertion on the batch size
batch_size_fits(batch_size, length) == batch_size <= length

\* the builtin round(x, 3), on exact values
round3(x) ==
    IF x.d = 0 THEN NaN
    ELSE LET num == 1000 * x.n
             q == FloorDiv(num, x.d)
             r == num - q * x.d
             up == \/ 2 * r > x.d
                   \/ (2 * r = x.d /\ q % 2 = 1)
         IN  Rat(IF up THEN q + 1 ELSE q, 1000)

\* get_bins, lines 142-147
get_bins(given_bins, nbr_bins, depth) ==
    LET max_pixel_value == depth_dict[depth]
        made == [b \in 0 .. nbr_bins |->
                    IF b = nbr_bins THEN FromInt(max_pixel_value)
                    ELSE round3(RMul(Rat(b, nbr_bins), FromInt(max_pixel_value)))]
        listed == IF given_bins = Unset THEN made ELSE given_bins
    IN  [bins |-> listed,
         norm |-> [b \in DOMAIN listed |-> round3(RDiv(listed[b], FromInt(max_pixel_value)))]]

\* a pixel of a patch: the value of the band, already normalized, and its class
PixelCasesStatistics ==
    { [image |-> Zero, mask |-> OneHot(2, 0)],
      [image |-> Half, mask |-> OneHot(2, 1)],
      [image |-> One, mask |-> OneHot(2, 1)] }

PatchesOf(cases) ==
    { [image |-> [p \in Pixels |-> f[p].image], mask |-> [p \in Pixels |-> f[p].mask]] :
        f \in [Pixels -> cases] }

PatchDatasetsOf(patches) ==
    { [k \in 0 .. Len(sq) - 1 |-> sq[k + 1]] :
        sq \in UNION { [1 .. m -> patches] : m \in 1 .. MaxSamples } }

\* the arguments of the constructor: a tag the dictionary knows or not, bins given or
\* not, a batch size from zero to one more than the largest dataset
ArgsStatistics ==
    { [type_classifier |-> "statistics", bit_depth |-> t, bins |-> g, nbr_bins |-> 2,
       batch_size |-> s] :
        t \in {"keep", "8 bits", "12 bits", "14 bits", "16 bits", "32 bits"},
        g \in {Unset, np_array([b \in 0 .. 2 |-> FromInt(<<0, 64, 255>>[b + 1])])},
        s \in 0 .. MaxSamples + 1 }

\* the call of Statistics(dataset, ...): nothing is set yet
InitStatistics ==
    /\ config \in ArgsStatistics
    /\ dataset \in PatchDatasetsOf(PatchesOf(PixelCasesStatistics))
    /\ pc = "new"
    /\ NoStatistics /\ NoCli /\ NoSecondScan /\ NoScanState /\ NoBinaryState
    /\ pulls = [k \in DOMAIN dataset |-> 0]
    /\ dataset_index = -1 /\ i = 0 /\ th = 1
    /\ csv = Unset /\ df_dataset_writes = [k \in DOMAIN dataset |-> 0]
    /\ df_thresholds = Unset /\ df_dataset = Unset
    /\ df_report_classes = Unset /\ df_report_macro = Unset /\ df_report_micro = Unset

\* __init__, lines 80-101: the tag, then the bins
StatisticsBitDepth ==
    /\ pc = "new"
    /\ \E depth \in {checked_bit_depth(config.bit_depth)} :
          /\ bit_depth' = depth
          /\ \E made \in {get_bins(config.bins, config.nbr_bins, depth)} :
                /\ self_bins' = made.bins
                /\ norm_bins' = made.norm
    /\ warnings' = IF config.bit_depth \in DOMAIN depth_dict THEN 0 ELSE 1
    /\ pc' = "depth"
    /\ UNCHANGED <<inputVars, nbr_batches, bands_hists, index, first_scan, patchVars, cliVars,
                   pulls, posVars, scanVars, curveVars, cmVars, reportVars, binaryVars>>

\* __init__, lines 103-114: the batch size, the number of batches, the empty tables
StatisticsBatches ==
    /\ pc = "depth"
    /\ IF ~batch_size_fits(config.batch_size, len(dataset))
       THEN /\ error' = [type |-> "AssertionError",
                         message |-> "batch_size must be lower than the length of the dataset",
                         samples |-> {}]
            /\ pc' = "error"
            /\ UNCHANGED <<nbr_batches, bands_hists, index, df_dataset>>
       ELSE IF config.batch_size = 0
       THEN /\ error' = [type |-> "ZeroDivisionError",
                         message |-> "integer division or modulo by zero",
                         samples |-> {}]
            /\ pc' = "error"
            /\ UNCHANGED <<nbr_batches, bands_hists, index, df_dataset>>
       ELSE /\ nbr_batches' = IF len(dataset) % config.batch_size = 0
                              THEN len(dataset) \div config.batch_size
                              ELSE len(dataset) \div config.batch_size + 1
            /\ bands_hists' = np_zeros(len(self_bins) - 1)
            /\ df_dataset' = [k \in DOMAIN dataset |-> Unset]
            /\ index' = 0
            /\ pc' = "stat_scan"
            /\ error' = error
    /\ UNCHANGED <<inputVars, bit_depth, self_bins, norm_bins, warnings, first_scan, patchVars,
                   files, sample_shape, pulls, posVars, cm_macro, cms_one_class,
                   dict_hist_counts, dict_bin_sums, dict_bin_true, dict_bin_total,
                   counts_sample_per_class, cr_cm, cm, curveVars, cmVars, reportVars, binaryVars>>

np_min(x) == CHOOSE v \in {x[p] : p \in DOMAIN x} : \A p \in DOMAIN x : RLe(v, x[p])
np_max(x) == CHOOSE v \in {x[p] : p \in DOMAIN x} : \A p \in DOMAIN x : RLe(x[p], v)
np_mean(x) == RDiv(RSumOver(DOMAIN x, x), FromInt(len(x)))

\* scan_dataset, lines 204-221: the body of the loop for the next patch of the loader
StatisticsScanPatch ==
    /\ pc = "stat_scan"
    /\ index < len(dataset)
    /\ \E vect_band \in {dataset[index].image} :
          /\ bands_hists' = VecAdd(bands_hists, np_histogram(vect_band, norm_bins))
          /\ df_dataset' = [df_dataset EXCEPT ![index] =
                               [band_1_min |-> np_min(vect_band),
                                band_1_max |-> np_max(vect_band),
                                band_1_mean |-> np_mean(vect_band),
                                class_1 |-> np_count_nonzero(channel(dataset[index].mask, 0)),
                                class_2 |-> np_count_nonzero(channel(dataset[index].mask, 1))]]
    /\ pulls' = [pulls EXCEPT ![index] = @ + 1]
    /\ index' = index + 1
    /\ UNCHANGED <<inputVars, bit_depth, self_bins, norm_bins, nbr_batches, warnings, pc,
                   first_scan, patchVars, cliVars, posVars, cm_macro, cms_one_class,
                   dict_hist_counts, dict_bin_sums, dict_bin_true, dict_bin_total,
                   counts_sample_per_class, cr_cm, cm, curveVars, cmVars, reportVars, binaryVars>>

\* scan_dataset: the loader is exhausted
StatisticsScanEnd ==
    /\ pc = "stat_scan"
    /\ index = len(dataset)
    /\ pc' = "scanned"
    /\ UNCHANGED <<inputVars, statVars, first_scan, patchVars, cliVars, pulls, posVars, scanVars,
                   curveVars, cmVars, reportVars, binaryVars>>

NextStatistics ==
    \/ StatisticsBitDepth
    \/ StatisticsBatches
    \/ StatisticsScanPatch
    \/ StatisticsScanEnd

SpecStatistics == InitStatistics /\ [][NextStatistics]_vars

(***************************************************************************)
(* Properties                                                              *)
(***************************************************************************)
IsMulticlass == config.type_classifier = "multiclass"
IsBinary == config.type_classifier = "binary"
VecSum(v) == SumOver(DOMAIN v, v)
RVecSum(v) == RSumOver(DOMAIN v, v)
\* H x W, the same for every sample, and how many samples the loop has pulled so far
NbPixels == Cardinality(DOMAIN dataset[0].mask)
NbPulled == dataset_index + 1
AfterScan == pc \in {"scanned", "metrics", "reported", "done", "error"}

\* C1: for every confusion matrix cm and every class index i, the quadruple of
\* get_obs_by_class_from_cm is (cm[i,i], row sum - tp, column sum - tp,
\* total - row sum - column sum + tp) and tp + fn + fp + tn = sum(cm); so does the
\* 2 x 2 matrix get_metrics_from_cm lays the quadruple out in.
C1_QuadrupleSumsToTotal ==
    (IsMulticlass /\ cm_macro # Unset) =>
        \A k \in Classes :
            LET o == get_obs_by_class_from_cm(cm_macro, config.nbr_class)[k]
            IN  /\ o.tp = cm_macro[k][k]
                /\ o.fn = RowSum(cm_macro, k) - o.tp
                /\ o.fp = ColSum(cm_macro, k) - o.tp
                /\ o.tp + o.fn + o.fp + o.tn = MatSum(cm_macro)
                /\ pc = "metrics" => MatSum(cms_classes[k]) = MatSum(cm_macro)

\* a 3-class matrix with hits and confusions has been taken apart
C1_Witness ==
    /\ pc = "metrics" /\ config.nbr_class = 3
    /\ cm_macro[1][1] > 0 /\ cm_macro[0][1] > 0 /\ cm_macro[1][2] > 0
    /\ cms_classes[1][0][0] = cm_macro[1][1]

\* C2: every confusion matrix built during the scan, the one-vs-rest 2 x 2 matrix
\* of a class at a threshold and the joint argmax matrix of a sample (multiclass),
\* the 2 x 2 matrix of a sample at a threshold (binary), sums to the H x W pixels
\* of the sample it was built from.
C2_BuiltMatrixSumsToPixels ==
    /\ cr_cm # Unset =>
          \A t \in DOMAIN cr_cm : MatSum(cr_cm[t]) = NbPixels
    /\ cm # Unset => MatSum(cm) = NbPixels

\* the second class of a multiclass sample has had its matrices built, the joint one too
C2_Witness ==
    /\ IsMulticlass /\ pc = "body" /\ i = 1
    /\ cm # Unset /\ cr_cm # Unset
    /\ \E t \in DOMAIN cr_cm : cr_cm[t][0][0] = 1

\* C3: the joint matrix of every sample is added into cm_macro exactly once: between
\* two samples sum(cm_macro) is the number of samples pulled times H x W, and after
\* a scan of n samples it is n * H * W.
C3_JointMatrixOncePerSample ==
    IsMulticlass =>
        /\ pc = "scan" => MatSum(cm_macro) = NbPulled * NbPixels
        /\ pc = "body" /\ i > 0 => MatSum(cm_macro) = NbPulled * NbPixels
        /\ AfterScan /\ dataset # <<>> => MatSum(cm_macro) = len(dataset) * NbPixels

\* a scan of two samples is over
C3_Witness ==
    /\ IsMulticlass /\ pc = "scanned" /\ len(dataset) = 2
    /\ MatSum(cm_macro) = 2 * NbPixels

\* C4: the calibration accumulators of a class are updated exactly once per sample:
\* after a scan of n samples the bin_total counts of every class sum to n * H * W,
\* and so do the histogram counts; multiclass dict_bin_total[class], binary bin_total.
C4_CalibrationOncePerSample ==
    /\ IsMulticlass /\ dataset # <<>> =>
          /\ pc = "scan" =>
                \A k \in Classes : /\ VecSum(dict_bin_total[k]) = NbPulled * NbPixels
                                   /\ RVecSum(dict_hist_counts[k]) = FromInt(NbPulled * NbPixels)
          /\ AfterScan =>
                \A k \in Classes : /\ VecSum(dict_bin_total[k]) = len(dataset) * NbPixels
                                   /\ RVecSum(dict_hist_counts[k]) = FromInt(len(dataset) * NbPixels)
    /\ IsBinary =>
          /\ pc = "samples" =>
                VecSum(bin_total) = (IF th = 1 THEN NbPulled ELSE len(dataset)) * NbPixels
          /\ pc \in {"done", "error"} =>
                /\ VecSum(bin_total) = len(dataset) * NbPixels
                /\ VecSum(hist_counts) = len(dataset) * NbPixels

\* two samples scanned, their pixels of class 0 counted into the bins
C4_Witness ==
    /\ IsMulticlass /\ pc = "scanned" /\ len(dataset) = 2
    /\ VecSum(dict_bin_total[0]) = 2 * NbPixels
    /\ VecSum(dict_bin_total[1]) = 2 * NbPixels

positives_pulled(k) ==
    SumOver(0 .. dataset_index,
            [s \in 0 .. dataset_index |-> np_count_nonzero(channel(dataset[s].mask, k))])

ZeroGuarded(q, m) ==
    LET tp == q[0][0]
        fn == q[0][1]
        fp == q[1][0]
        tn == q[1][1]
    IN  /\ \A x \in SeqToSet(metrics_names) : IsFinite(m[x])
        /\ tp + fn + fp + tn = 0 => m.Accuracy = Zero
        /\ tp + fp = 0 => m.Precision = Zero
        /\ tp + fn = 0 => m.Recall = Zero
        /\ tn + fp = 0 => m.Specificity = Zero /\ m.FPR = Zero
        /\ (m.Precision = Zero /\ m.Recall = Zero) => m.F1_Score = Zero
        /\ tp + fn + fp = 0 => m.IoU = Zero /\ m.Dice = Zero

AllFinite(m) == \A x \in DOMAIN m : IsFinite(m[x])

\* C6: get_metrics_from_obs yields no NaN and no Inf: a metric whose denominator is 0
\* is 0, the quadruple (0,0,0,0) gives 0 for every metric, and so it is at every
\* call: per class, micro, per threshold one-vs-rest, per patch, and per threshold
\* in the binary run.
C6_NoNaNZeroGuard ==
    /\ \A x \in SeqToSet(metrics_names) : get_metrics_from_obs(0, 0, 0, 0)[x] = Zero
    /\ IsMulticlass /\ AfterScan /\ dataset # <<>> =>
          \A t \in 1 .. NThresholds : \A k \in Classes : AllFinite(cms_one_class[t][k])
    /\ IsMulticlass /\ pc \in {"metrics", "reported", "done", "error"} =>
          /\ \A k \in Classes : ZeroGuarded(cms_classes[k], metrics_by_class[k])
          /\ ZeroGuarded(cm_micro, metrics_micro)
    /\ IsMulticlass /\ df_dataset # Unset =>
          \A s \in DOMAIN df_dataset :
              df_dataset[s] # Unset =>
                  /\ IsFinite(df_dataset[s].OA) /\ IsFinite(df_dataset[s].micro_IoU)
                  /\ \A k \in Classes : AllFinite(df_dataset[s].by_class[k])
    /\ IsBinary /\ pc \in {"samples", "thresholds", "done", "error"} =>
          \A k \in DOMAIN df_thresholds :
              (k < th \/ pc \in {"done", "error"}) =>
                  ZeroGuarded(cms[config.threshold_range[k]], df_thresholds[k])

\* a class no pixel was predicted as: its Precision has the denominator 0 and is 0
C6_Witness ==
    /\ IsMulticlass /\ pc = "metrics"
    /\ \E k \in Classes :
          /\ cms_classes[k][0][0] + cms_classes[k][1][0] = 0
          /\ cms_classes[k][0][1] > 0
          /\ metrics_by_class[k].Precision = Zero
          /\ metrics_by_class[k].F1_Score = Zero

Trace(a) == SumOver(DOMAIN a, [k \in DOMAIN a |-> a[k][k]])
UniformWeights == \A k \in DOMAIN config.weights : config.weights[k] = 1
\* the correctly labelled share of the pixels of the joint matrix (0 for no pixel)
OverallAccuracy == safe_div(Trace(cm_macro), MatSum(cm_macro))

\* C7, as stated: with the micro matrix the sum of the per-class 2 x 2 matrices,
\* Precision = Recall = F1 = Accuracy for every joint matrix.
C7_MicroMetricsAllEqual ==
    (pc = "metrics" /\ UniformWeights) =>
        /\ metrics_micro.Precision = metrics_micro.Recall
        /\ metrics_micro.Precision = metrics_micro.F1_Score
        /\ metrics_micro.Precision = metrics_micro.Accuracy

\* C7, amended: with the micro matrix the sum of the per-class 2 x 2 matrices,
\* Precision = Recall = F1 = trace(cm) / sum(cm), the overall accuracy of the joint
\* matrix, which 'OA' reports; the micro metric 'Accuracy' is
\* (2 trace + (C - 2) sum) / (C sum), equal to them for C = 2 classes.
C7_MicroPrecisionIsOverallAccuracy ==
    (pc = "metrics" /\ UniformWeights) =>
        /\ metrics_micro.Precision = OverallAccuracy
        /\ metrics_micro.Recall = OverallAccuracy
        /\ metrics_micro.F1_Score = OverallAccuracy
        /\ metrics_micro.Accuracy =
              safe_div(2 * Trace(cm_macro) + (config.nbr_class - 2) * MatSum(cm_macro),
                       config.nbr_class * MatSum(cm_macro))
        /\ config.nbr_class = 2 => metrics_micro.Accuracy = OverallAccuracy

\* three classes, no weights, half of the pixels right: Accuracy is 2/3, not 1/2
C7_Witness ==
    /\ pc = "metrics" /\ config.nbr_class = 3 /\ ~config.weighted
    /\ metrics_micro.Precision = Half
    /\ metrics_micro.Accuracy = Rat(2, 3)

\* C8: with user weights given and all equal to 1, the weighted micro matrix
\* sum of weight_i * cm_i is the plain sum of the per-class 2 x 2 matrices.
C8_UniformWeightsAreNoWeights ==
    (pc = "metrics" /\ config.weighted /\ UniformWeights) =>
        /\ cm_micro = np_sum_axis0(cms_classes)
        /\ MatSum(cm_micro) = config.nbr_class * MatSum(cm_macro)

\* weights [1, 1, 1] were given and a matrix of three pixels summed
C8_Witness ==
    /\ pc = "metrics" /\ config.weighted /\ UniformWeights /\ config.nbr_class = 3
    /\ MatSum(cm_macro) = 3
    /\ cm_micro[0][0] > 0 /\ cm_micro[0][1] > 0

\* the positive pixels of class k in the masks of the dataset
positive_pixels(k) ==
    SumOver(DOMAIN dataset,
            [s \in DOMAIN dataset |-> np_count_nonzero(channel(dataset[s].mask, k))])
total_positive_pixels == SumOver(Classes, [k \in Classes |-> positive_pixels(k)])
\* sum over the classes of metric m of the class times its positive pixels, over
\* the positive pixels of all classes
positives_weighted_mean(m) ==
    RDiv(RSumOver(Classes, [k \in Classes |->
                      RMul(df_report_classes.classes[k][m], FromInt(positive_pixels(k)))]),
         FromInt(total_positive_pixels))
Reported == IsMulticlass /\ pc \in {"reported", "done"}

column_mean(m) ==
    RDiv(RSumOver(Classes, [k \in Classes |-> df_report_classes.classes[k][m]]),
         FromInt(config.nbr_class))

\* C10: the per-class report has one row per class, the metrics of the class without
\* FPR, and the row 'Overall', the mean of each column over the class rows; the macro
\* row 'Average' is the Precision, Recall, F1-Score and IoU of 'Overall'.
C10_OverallIsColumnMean ==
    (IsMulticlass /\ pc \in {"reported", "done", "error"}) =>
        /\ DOMAIN df_report_classes.classes = Classes
        /\ \A k \in Classes : \A m \in SeqToSet(report_names) :
              df_report_classes.classes[k][m] = metrics_by_class[k][m]
        /\ DOMAIN df_report_classes.Overall = SeqToSet(report_names)
        /\ \A m \in SeqToSet(report_names) : df_report_classes.Overall[m] = column_mean(m)
        /\ \A m \in SeqToSet(headline_names) :
              df_report_macro["Average"][m] = df_report_classes.Overall[m]

\* a report whose classes differ: Recall 1 and 0, so 1/2 overall
C10_Witness ==
    /\ IsMulticlass /\ pc = "done"
    /\ df_report_classes.classes[0]["Recall"] = One
    /\ df_report_classes.classes[1]["Recall"] = Zero
    /\ df_report_classes.Overall["Recall"] = Half
    /\ df_report_macro["Average"]["Recall"] = Half

\* sum over the classes of metric m of the class times the weight of the class,
\* over the number of classes
user_weighted_mean(m) ==
    RDiv(RSumOver(Classes, [k \in Classes |->
                      RMul(df_report_classes.classes[k][m], FromInt(config.weights[k + 1]))]),
         FromInt(config.nbr_class))

\* C11, as stated: the macro table has the row 'User weighted avg' exactly when
\* weights were given, and its value for each headline metric is the sum of
\* (metric of class i * weight i) over the number of classes.
C11_UserWeightedAvgIsQuotient ==
    Reported =>
        /\ ("User weighted avg" \in DOMAIN df_report_macro) <=> config.weighted
        /\ config.weighted =>
              \A m \in SeqToSet(headline_names) :
                  df_report_macro["User weighted avg"][m] = user_weighted_mean(m)

\* C11, amended: the row is there exactly when self.weighted is set, from the
\* construction on, and once the report is written its value is that quotient
\* rounded to 2 decimals.
C11_UserWeightedAvgIsRoundedQuotient ==
    IsMulticlass =>
        /\ DOMAIN df_report_macro =
              (IF config.weighted THEN {"Average", "Weighted avg", "User weighted avg"}
               ELSE {"Average", "Weighted avg"})
        /\ (Reported /\ config.weighted) =>
              \A m \in SeqToSet(headline_names) :
                  df_report_macro["User weighted avg"][m] = np_round2(user_weighted_mean(m))

\* weights [2, 1]: a quotient that has more than 2 decimals was written rounded
C11_Witness ==
    /\ Reported /\ config.weighted /\ config.weights[1] = 2
    /\ \E m \in SeqToSet(headline_names) :
          /\ user_weighted_mean(m) # np_round2(user_weighted_mean(m))
          /\ df_report_macro["User weighted avg"][m] = np_round2(user_weighted_mean(m))

\* the prediction is the mask at every pixel, and every class has a pixel
PredEqualsMask ==
    \A s \in DOMAIN dataset : \A p \in DOMAIN dataset[s].mask : \A c \in Classes :
        dataset[s].pred[p][c] = FromInt(dataset[s].mask[p][c])
EveryClassOccurs == \A c \in Classes : positive_pixels(c) > 0

\* C12: end to end, for a dataset whose prediction equals the mask at every pixel and
\* in which every class occurs, run() gives Precision = Recall = F1 = IoU = 1 for
\* every class, an Overall row of 1 for the four, and the macro Average row [1,1,1,1].
C12_PerfectPredictionScoresOne ==
    (Reported /\ PredEqualsMask /\ EveryClassOccurs) =>
        \A m \in SeqToSet(headline_names) :
            /\ \A k \in Classes : df_report_classes.classes[k][m] = One
            /\ df_report_classes.Overall[m] = One
            /\ df_report_macro["Average"][m] = One

\* a run over two samples, one of each class, predicted as labelled, has reported
C12_Witness ==
    /\ pc = "done" /\ PredEqualsMask /\ EveryClassOccurs
    /\ len(dataset) = 2
    /\ df_report_classes.classes[0]["F1_Score"] = One
    /\ df_report_macro["Average"]["IoU"] = One

\* the bins that hold an observation, and the place of such a bin among them
nonzero_bins(total) == {b \in DOMAIN total : total[b] # 0}
place(total, b) == Cardinality({x \in nonzero_bins(total) : x <= b})
\* curve is one point per bin that holds an observation, in bin order: mass / count
IsCurveOf(curve, mass, total) ==
    /\ DOMAIN curve = 1 .. Cardinality(nonzero_bins(total))
    /\ \A b \in nonzero_bins(total) :
          /\ curve[place(total, b)] = RDiv(mass[b], FromInt(total[b]))
          /\ IsFinite(curve[place(total, b)])

\* C13: after the scan the calibration curve of a class holds exactly one
\* (prob_true, prob_pred) point per bin whose count is not 0, in bin order,
\* prob_true = true mass / count and prob_pred = prediction mass / count; empty bins
\* are absent and no 0/0 is emitted. Multiclass per class, binary for the one curve.
C13_CurveSkipsEmptyBins ==
    /\ (IsMulticlass /\ AfterScan /\ dataset # <<>>) =>
          \A k \in Classes :
              /\ IsCurveOf(dict_prob_true[k], dict_bin_true[k], dict_bin_total[k])
              /\ IsCurveOf(dict_prob_pred[k], dict_bin_sums[k], dict_bin_total[k])
    /\ (IsBinary /\ pc \in {"done", "error"}) =>
          /\ IsCurveOf(prob_true, bin_true, bin_total)
          /\ IsCurveOf(prob_pred, bin_sums, bin_total)

\* class 0 after a scan of two samples: two bins hold a pixel, the others none
C13_Witness ==
    /\ IsMulticlass /\ pc = "scanned" /\ len(dataset) = 2
    /\ Len(dict_prob_true[0]) = 2 /\ Len(dict_prob_pred[0]) = 2
    /\ \E b \in DOMAIN dict_bin_total[0] : dict_bin_total[0][b] = 0
    /\ dict_prob_pred[0][1] # dict_prob_pred[0][2]

\* every pixel of the dataset has the prediction v and the true label 1, in
\* channel k of a multiclass dataset, and in a binary dataset
AllPixelsOfClass(k, v) ==
    \A s \in DOMAIN dataset : \A p \in DOMAIN dataset[s].mask :
        dataset[s].pred[p][k] = v /\ dataset[s].mask[p][k] = 1
AllPixels(v) ==
    \A s \in DOMAIN dataset : \A p \in DOMAIN dataset[s].mask :
        dataset[s].pred[p] = v /\ dataset[s].mask[p] = 1
PredictionValues == {Zero, Rat(1, 4), Half, Rat(3, 4), One}

\* C14: an accumulator fed only pixels of one identical prediction p and of true
\* label 1 gives one point, prob_true = 1 and prob_pred = p; every other bin is absent.
C14_OneValueOnePoint ==
    /\ (IsMulticlass /\ AfterScan /\ dataset # <<>>) =>
          \A k \in Classes : \A v \in PredictionValues :
              AllPixelsOfClass(k, v) =>
                  dict_prob_true[k] = <<One>> /\ dict_prob_pred[k] = <<v>>
    /\ (IsBinary /\ pc \in {"done", "error"}) =>
          \A v \in PredictionValues :
              AllPixels(v) => prob_true = <<One>> /\ prob_pred = <<v>>

\* two samples whose pixels are all of class 1 and predicted 1/2 for it
C14_Witness ==
    /\ IsMulticlass /\ pc = "scanned" /\ len(dataset) = 2
    /\ AllPixelsOfClass(1, Half)
    /\ dict_prob_true[1] = <<One>> /\ dict_prob_pred[1] = <<Half>>
    /\ VecSum(dict_bin_total[1]) = 2 * NbPixels

\* the pixels of an array of predictions strictly above a threshold, and at it
above(arr, thr) == {p \in DOMAIN arr : arr[p].n * thr.d > thr.n * arr[p].d}
at_threshold(arr, thr) == {p \in DOMAIN arr : arr[p] = thr}
\* the class whose one-vs-rest matrices cr_cm holds
ClassOfCrCm == IF pc = "body" THEN i - 1 ELSE config.nbr_class - 1

\* C15: the binary binarizer is the element-wise strict prediction > threshold: a
\* pixel whose prediction is the threshold is labelled 0, and threshold 0.5 on
\* [[0.1, 0.6], [0.5, 0.9]] gives [[0, 1], [0, 1]]. At the call sites: the pixels
\* counted as predicted positive (tp + fp) in the matrix of a threshold are those
\* strictly above it.
C15_BinarizerIsStrict ==
    /\ binarize_binary(<<Rat(1, 10), Rat(6, 10), Rat(5, 10), Rat(9, 10)>>, Half) = <<0, 1, 0, 1>>
    /\ (IsMulticlass /\ cr_cm # Unset /\ (pc = "scan" \/ (pc = "body" /\ i > 0))) =>
          \A t \in DOMAIN cr_cm :
              cr_cm[t][0][0] + cr_cm[t][1][0] =
                  Cardinality(above(channel(dataset[dataset_index].pred, ClassOfCrCm),
                                    config.threshold_range[t]))
    /\ (IsBinary /\ pc = "samples" /\ dataset_index >= 0) =>
          cm[0][0] + cm[1][0] =
              Cardinality(above(dataset[dataset_index].pred, config.threshold_range[th]))

\* a pixel of class 1 predicted 1/2 for it was matched against the threshold 1/2:
\* it is a false negative
C15_Witness ==
    /\ IsMulticlass /\ pc = "scan" /\ cr_cm # Unset
    /\ \E t \in DOMAIN cr_cm :
          /\ config.threshold_range[t] = Half
          /\ at_threshold(channel(dataset[dataset_index].pred, ClassOfCrCm), Half) # {}
          /\ cr_cm[t][0][1] = NbPixels

\* the indices at which a vector of rationals takes its largest value
tops(v) == {k \in DOMAIN v : \A j \in DOMAIN v : RLe(v[j], v[k])}
lowest(S) == CHOOSE k \in S : \A j \in S : k <= j
lowest_top(v) == lowest(tops(v))
mask_as_rationals(m) == [c \in DOMAIN m |-> FromInt(m[c])]
\* the joint matrix held in cm belongs to the sample under the cursor
JointCmOfCurrentSample ==
    IsMulticlass /\ cm # Unset /\ (pc = "scan" \/ (pc = "body" /\ i > 0))

\* C16: the multiclass binarizer reduces each pixel of the prediction, and of the
\* mask, to the index of its largest channel, and among tied channels to the
\* lowest index: the joint matrix of a sample counts in cell [r][c] the pixels
\* whose lowest largest mask channel is r and lowest largest prediction channel is c.
C16_ArgmaxLowestIndexOnTies ==
    JointCmOfCurrentSample =>
        LET sample == dataset[dataset_index]
        IN  \A r, c \in 0 .. config.nbr_class - 1 :
                cm[r][c] = Cardinality({p \in DOMAIN sample.pred :
                               /\ lowest_top(mask_as_rationals(sample.mask[p])) = r
                               /\ lowest_top(sample.pred[p]) = c})
\* a sample with a pixel whose prediction channels all tie, labelled class 1, has
\* been counted as predicted class 0
C16_Witness ==
    /\ JointCmOfCurrentSample
    /\ \E p \in DOMAIN dataset[dataset_index].pred :
          /\ Cardinality(tops(dataset[dataset_index].pred[p])) > 1
          /\ dataset[dataset_index].mask[p][1] = 1
    /\ cm[1][0] > 0

SecondScanDone ==
    /\ first_scan # Unset
    /\ \/ IsMulticlass /\ pc = "scanned"
       \/ IsBinary /\ pc = "done"

\* C17: a scan run a second time over the same samples leaves in every accumulator
\* (macro matrix, one-vs-rest results per class and threshold, calibration arrays,
\* histogram counts, positive-pixel counts; in the binary run the matrices per
\* threshold, the calibration arrays and the histogram) exactly what the first
\* scan left: nothing of the first scan is added to.
C17_SecondScanLeavesTheSame ==
    SecondScanDone =>
        IF IsMulticlass THEN scan_accumulators = first_scan
        ELSE binary_accumulators = first_scan
\* a second multiclass scan has finished over samples that filled the macro matrix,
\* the positive-pixel counts and the calibration arrays
C17_Witness ==
    /\ SecondScanDone /\ IsMulticlass
    /\ \A k \in DOMAIN pulls : pulls[k] = 2
    /\ MatSum(cm_macro) > 0
    /\ \E k \in Classes : counts_sample_per_class[k] > 0
    /\ \E k \in Classes : VecSum(dict_bin_total[k]) > 0

\* the samples of the stream as a multiset: the distinct contents, and how many
\* samples of the stream hold each
content(sample) == [mask |-> sample.mask, pred |-> sample.pred]
SampleBag == {content(dataset[k]) : k \in DOMAIN dataset}
copies(s) == Cardinality({k \in DOMAIN dataset : content(dataset[k]) = s})
\* the sum over the multiset of val[s], a number for each distinct content
bag_total(val) == SumOver(SampleBag, [s \in SampleBag |-> copies(s) * val[s]])
ScanLoopOver == IsMulticlass /\ pc = "scan" /\ dataset_index + 1 = len(dataset)

\* C18: the accumulated totals are a function of the multiset of samples, not of
\* their order: when the sample loop is over, each cell of the macro matrix, of the
\* one-vs-rest matrix of each class at each threshold, and each calibration count
\* (observations per bin, histogram) is the sum over the distinct samples of that
\* sample's own contribution times the number of its copies in the stream.
C18_TotalsAreSumsOverTheMultiset ==
    ScanLoopOver =>
        /\ \A r, c \in Classes :
              cm_macro[r][c] =
                  bag_total([s \in SampleBag |-> joint_cm(s, config.nbr_class)[r][c]])
        /\ \A t \in 1 .. NThresholds : \A k \in Classes : \A r, c \in 0 .. 1 :
              cms_one_class[t][k][r][c] =
                  bag_total([s \in SampleBag |->
                                one_vs_rest_cm(s, k, config.threshold_range[t])[r][c]])
        /\ \A k \in Classes :
              LET cal == [s \in SampleBag |->
                             calibration_update(channel(s.pred, k), channel(s.mask, k), config.bins)]
              IN  /\ \A b \in DOMAIN dict_bin_total[k] :
                        dict_bin_total[k][b] = bag_total([s \in SampleBag |-> cal[s].bin_total[b]])
                  /\ \A b \in DOMAIN dict_hist_counts[k] :
                        dict_hist_counts[k][b] = FromInt(bag_total([s \in SampleBag |-> cal[s].hist_counts[b]]))
\* the loop is over for a stream of two samples that differ, the first of which
\* filled a cell of the macro matrix that the second did not
C18_Witness ==
    /\ ScanLoopOver
    /\ len(dataset) = 2
    /\ content(dataset[0]) # content(dataset[1])
    /\ \E r, c \in Classes :
          /\ joint_cm(dataset[0], config.nbr_class)[r][c] > 0
          /\ joint_cm(dataset[1], config.nbr_class)[r][c] = 0
          /\ cm_macro[r][c] > 0

PerPatch == IsMulticlass /\ config.get_metrics_per_patch /\ pc # "constructed"
\* the class loop of sample k has passed its first class, where the row is written
RowDue(k) == k < dataset_index \/ (k = dataset_index /\ (pc # "body" \/ i > 0))
\* row k has just been written, or the sample loop is over
RowSettled(k) ==
    \/ k = dataset_index /\ pc = "body" /\ i = 1
    \/ pc = "scan" /\ dataset_index + 1 = len(dataset)
    \/ csv # Unset
own_row(k) == patch_row(np_array(joint_cm(dataset[k], config.nbr_class)), dataset[k].name_file)

\* C19: with per-patch metrics asked for, the table has one row per sample; row k is
\* written once, when sample k is scanned, and never again, and holds the name of
\* sample k, so that the rows follow the stream; right after it is written, when
\* the sample loop is over and when the table is exported, it holds the metrics of
\* the joint matrix of sample k alone; the table is exported only when the scan is
\* over and every row is written, and the export is the table.
C19_OneRowPerSampleWrittenOnce ==
    PerPatch =>
        /\ DOMAIN df_dataset = DOMAIN dataset
        /\ \A k \in DOMAIN dataset :
              IF RowDue(k)
              THEN /\ df_dataset_writes[k] = 1
                   /\ df_dataset[k] # Unset
                   /\ df_dataset[k].name_file = dataset[k].name_file
                   /\ RowSettled(k) => df_dataset[k] = own_row(k)
              ELSE /\ df_dataset_writes[k] = 0
                   /\ df_dataset[k] = Unset
        /\ csv # Unset =>
              /\ pc = "done"
              /\ dataset_index + 1 = len(dataset)
              /\ \A k \in DOMAIN dataset : df_dataset_writes[k] = 1
              /\ csv = df_dataset
\* a table of two rows that differ has been exported
C19_Witness ==
    /\ PerPatch /\ csv # Unset
    /\ len(dataset) = 2
    /\ csv[0].by_class # csv[1].by_class
    /\ csv[0].name_file = 0 /\ csv[1].name_file = 1

\* the pairs of files whose mask and prediction disagree on the shape
ShapeMismatches == {k \in DOMAIN files : files[k].mask_shape # files[k].pred_shape}

\* C20: when the mask and the prediction of any sample of the stream disagree on
\* the shape, no matrix is accumulated from a sample after it, no report is
\* produced, and the error that ends the run names an offending sample.
C20_AnyShapeMismatchIsFatal ==
    ShapeMismatches # {} =>
        /\ df_report_metrics = Unset
        /\ \A k \in DOMAIN pulls :
              (\E j \in ShapeMismatches : j < k) => pulls[k] = 0
        /\ pc = "error" => error.samples \cap ShapeMismatches # {}

PassCompleted == pc \in {"scanned", "metrics", "reported", "done", "plotted", "error"}

\* C21: once the dataset pass has completed, no step of the object changes the
\* macro matrix, the calibration bin arrays, the prediction histogram counts, the
\* positive-pixel counts or the per-patch rows.
C21_AccumulatorsFrozenAfterScan ==
    [][PassCompleted =>
          UNCHANGED <<cm_macro, dict_bin_sums, dict_bin_true, dict_bin_total,
                      dict_hist_counts, counts_sample_per_class, df_dataset>>]_vars

ThresholdMatches == {t \in 1 .. NThresholds : config.threshold_range[t] = config.threshold}

NothingScannedByStatistics ==
    /\ index = Unset /\ bands_hists = Unset /\ df_dataset = Unset /\ nbr_batches = Unset
    /\ \A k \in DOMAIN dataset : pulls[k] = 0

\* C23: a Statistics object whose batch size exceeds the length of its dataset
\* is never scanned: its construction ends with the assertion error of line
\* 105, and no patch is pulled, no histogram or table row is made or filled.
C23_OversizedBatchIsRejected ==
    config.batch_size > len(dataset) =>
        /\ pc \in {"new", "depth", "error"}
        /\ NothingScannedByStatistics
        /\ pc = "error" => error.type = "AssertionError"
\* the construction was ended by the assertion, on a batch of 3 for 2 patches
C23_Witness ==
    /\ pc = "error" /\ error.type = "AssertionError"
    /\ config.batch_size = 3 /\ len(dataset) = 2
    /\ NothingScannedByStatistics

\* C24: a bit-depth tag the dictionary does not know does not end the
\* construction: the object takes '8 bits', logs one warning, builds its
\* normalized bins with the divisor 255 and goes on to the batch-size check;
\* whatever the tag, the bit depth of the object is one of the five known tags.
C24_UnknownBitDepthFallsBack ==
    pc # "new" =>
        /\ bit_depth \in {"keep", "8 bits", "12 bits", "14 bits", "16 bits"}
        /\ config.bit_depth \in {"keep", "8 bits", "12 bits", "14 bits", "16 bits"} =>
              bit_depth = config.bit_depth /\ warnings = 0
        /\ config.bit_depth \notin {"keep", "8 bits", "12 bits", "14 bits", "16 bits"} =>
              /\ bit_depth = "8 bits"
              /\ warnings = 1
              /\ config.bins = Unset => self_bins = np_array([b \in 0 .. 2 |-> Rat(255 * b, 2)])
              /\ norm_bins = [b \in DOMAIN self_bins |-> round3(RDiv(self_bins[b], FromInt(255)))]
              /\ pc = "error" => ~(0 < config.batch_size /\ config.batch_size <= len(dataset))
              /\ (0 < config.batch_size /\ config.batch_size <= len(dataset)) =>
                    pc \in {"depth", "stat_scan", "scanned"}
\* a dataset built with the tag '32 bits' was scanned to its end with the bins
\* of 8 bits
C24_Witness ==
    /\ pc = "scanned" /\ config.bit_depth = "32 bits" /\ config.bins = Unset
    /\ bit_depth = "8 bits" /\ warnings = 1
    /\ norm_bins = np_array([b \in 0 .. 2 |-> Rat(b, 2)])
    /\ index = len(dataset)

VecLe(a, b) == \A k \in DOMAIN a : a[k] <= b[k]
RVecLe(a, b) == \A k \in DOMAIN a : RLe(a[k], b[k])
MatLe(a, b) == \A r \in DOMAIN a : VecLe(a[r], b[r])
InPass == pc \in {"scan", "body", "thresholds", "samples"}

\* C25: from the start of the sample loop to its end, every step leaves every
\* entry of every accumulator at least as large as it was: the one-vs-rest
\* matrices of each threshold and class, the macro matrix, the calibration
\* arrays and the histogram counts of the multiclass scan, and the matrices
\* per threshold, the calibration arrays and the histogram counts of the
\* binary scan.  No entry is dropped or set back to zero.
C25_AccumulatorsAreAddOnly ==
    [][(InPass /\ InPass') =>
          /\ IsMulticlass =>
                /\ MatLe(cm_macro, cm_macro')
                /\ \A t \in 1 .. NThresholds : \A k \in Classes :
                      MatLe(cms_one_class[t][k], cms_one_class'[t][k])
                /\ \A k \in Classes :
                      /\ RVecLe(dict_hist_counts[k], dict_hist_counts'[k])
                      /\ RVecLe(dict_bin_sums[k], dict_bin_sums'[k])
                      /\ RVecLe(dict_bin_true[k], dict_bin_true'[k])
                      /\ VecLe(dict_bin_total[k], dict_bin_total'[k])
          /\ IsBinary =>
                /\ DOMAIN cms \subseteq DOMAIN cms'
                /\ \A t \in DOMAIN cms : MatLe(cms[t], cms'[t])
                /\ VecLe(hist_counts, hist_counts')
                /\ RVecLe(bin_sums, bin_sums')
                /\ RVecLe(bin_true, bin_true')
                /\ VecLe(bin_total, bin_total')]_vars
\* the second sample of a scan has been added to what the first one left: the
\* histogram of the binary run at its first threshold, the macro matrix and
\* the histograms of the multiclass run
C25_Witness ==
    \/ /\ IsBinary /\ pc = "samples" /\ th = 1 /\ dataset_index = 1
       /\ VecSum(hist_counts) = 2 * NbPixels
       /\ MatSum(cms[config.threshold_range[1]]) = 2 * NbPixels
    \/ /\ IsMulticlass /\ pc = "scan" /\ dataset_index = 1
       /\ MatSum(cm_macro) = 2 * NbPixels
       /\ \A k \in Classes : RVecSum(dict_hist_counts[k]) = FromInt(2 * NbPixels)

ScanAborted == IsMulticlass /\ pc = "error" /\ error # Unset

\* C26: when the scan has stopped on a sample, the object holds nothing of the
\* samples scanned before: its calibration arrays, its histogram counts and its
\* one-vs-rest matrices are empty, and it has no curve vectors, no metrics and
\* no filled report table.  (The macro matrix is a local of scan_dataset until
\* run assigns it, line 129, and is not among the attributes examined.)
C26_AbortedScanExposesNothing ==
    ScanAborted =>
        /\ \A k \in Classes :
              /\ VecSum(dict_bin_total[k]) = 0
              /\ RVecSum(dict_bin_sums[k]) = Zero
              /\ RVecSum(dict_bin_true[k]) = Zero
              /\ RVecSum(dict_hist_counts[k]) = Zero
              /\ \A t \in 1 .. NThresholds : MatSum(cms_one_class[t][k]) = 0
        /\ vect_classes = Unset
        /\ metrics_by_class = Unset

\* the array (labels == k), as 0 and 1
indicator(labels, k) == [p \in DOMAIN labels |-> IF labels[p] = k THEN 1 ELSE 0]
\* the 2-class matrix, labels reverted, of the indicators of class k over the
\* argmax labels of the samples 0 .. last
RECURSIVE IndicatorCmUpTo(_, _)
IndicatorCmUpTo(k, last) ==
    IF last < 0 THEN np_zeros2(2)
    ELSE LET b == binarize_multiclass(dataset[last].pred, dataset[last].mask)
         IN  MatAdd(IndicatorCmUpTo(k, last - 1),
                    get_confusion_matrix(indicator(b.mask, k), indicator(b.pred, k), 2, TRUE))

\* C27: the matrix [[tp, fn], [fp, tn]] that get_metrics_from_cm derives for
\* class k from the joint matrix of the scan is the 2-class confusion matrix,
\* built with revert_order, of the indicator arrays (true label = k) and
\* (predicted label = k) over all the pixels of the dataset.
C27_DerivedMatrixIsOneVsRest ==
    (IsMulticlass /\ pc = "metrics") =>
        \A k \in Classes : cms_classes[k] = IndicatorCmUpTo(k, len(dataset) - 1)
\* a dataset with a pixel of class 1 predicted as class 0 and one predicted
\* right: class 1 has a true positive and a false negative, class 0 a false
\* positive, so the two orientations differ
C27_Witness ==
    /\ IsMulticlass /\ pc = "metrics"
    /\ cms_classes[1][0][0] > 0 /\ cms_classes[1][0][1] > 0 /\ cms_classes[1][1][0] = 0
    /\ cms_classes[0][1][0] > 0

\* the non-zero mask pixels of class k in the whole dataset
positives_of_dataset(k) ==
    SumOver(DOMAIN dataset, [s \in DOMAIN dataset |-> np_count_nonzero(channel(dataset[s].mask, k))])

\* C28: once scan_dataset has returned, counts_sample_per_class holds for each
\* class the number of its non-zero mask pixels in the dataset, whatever the
\* number of thresholds of the range.
C28_CountsArePositivePixels ==
    (IsMulticlass /\ pc \in {"scanned", "metrics", "reported", "done"}) =>
        \A k \in Classes : counts_sample_per_class[k] = positives_of_dataset(k)

\* C29: the threshold range is ascending and, for every class, the accumulated
\* one-vs-rest matrices [[tp, fn], [fp, tn]] lose true positives and false
\* positives, never gain them, from one threshold to the next, while tp + fn
\* and fp + tn are the same at every threshold; once the scan is finalized the
\* Recall and FPR vectors of every class are non-increasing along the range.
C29_MonotoneInThreshold ==
    IsMulticlass =>
        /\ \A t \in 1 .. NThresholds - 1 : RLt(config.threshold_range[t], config.threshold_range[t + 1])
        /\ pc \in {"scan", "body"} =>
              \A k \in Classes : \A t \in 1 .. NThresholds - 1 :
                  LET lower == cms_one_class[t][k]
                      upper == cms_one_class[t + 1][k]
                  IN  /\ upper[0][0] <= lower[0][0]
                      /\ upper[1][0] <= lower[1][0]
                      /\ upper[0][0] + upper[0][1] = lower[0][0] + lower[0][1]
                      /\ upper[1][0] + upper[1][1] = lower[1][0] + lower[1][1]
        /\ pc \in {"scanned", "metrics", "reported", "done"} =>
              \A k \in Classes : \A t \in 1 .. NThresholds - 1 :
                  /\ RLe(vect_classes[k].Recall[t + 1], vect_classes[k].Recall[t])
                  /\ RLe(vect_classes[k].FPR[t + 1], vect_classes[k].FPR[t])
\* a finalized scan with a class whose Recall and FPR both go from 1 at the
\* first threshold to 0 at the last
C29_Witness ==
    /\ IsMulticlass /\ pc = "scanned"
    /\ \E k \in Classes :
          /\ vect_classes[k].Recall[1] = One /\ vect_classes[k].Recall[NThresholds] = Zero
          /\ vect_classes[k].FPR[1] = One /\ vect_classes[k].FPR[NThresholds] = Zero

NBins == NEdges - 1
\* the pixels of the samples 0 .. last whose prediction is the last bin edge
top_edge_pixels(preds_of, last) ==
    SumOver(0 .. last,
            [s \in 0 .. last |->
                Cardinality({p \in DOMAIN preds_of[s] : preds_of[s][p] = config.bins[NBins]})])
\* histogram counts h (as integers) against calibration counts n, bin by bin
\* up to the last bin, which also holds what the calibration counts keep in
\* their additional slot
AgreeButTopEdge(h, n) ==
    /\ \A b \in 0 .. NBins - 2 : h[b] = n[b]
    /\ h[NBins - 1] = n[NBins - 1] + n[NBins]
AgreeOnEveryBin(h, n) ==
    /\ \A b \in 0 .. NBins - 1 : h[b] = n[b]
    /\ n[NBins] = 0
ScanRunning == pc \in {"scan", "body", "scanned", "metrics", "reported", "done"}
BinRunning == pc \in {"thresholds", "samples", "done"}

\* C30 as stated: with every prediction value within [bins[0], bins[-1]], the
\* histogram counts and the calibration counts agree on each of the B bins and
\* the calibration counts hold nothing outside them.
C30_HistogramMatchesBinTotal ==
    /\ (IsMulticlass /\ ScanRunning) =>
          \A k \in Classes :
              /\ \A b \in 0 .. NBins - 1 : dict_hist_counts[k][b] = FromInt(dict_bin_total[k][b])
              /\ dict_bin_total[k][NBins] = 0
    /\ (IsBinary /\ BinRunning) => AgreeOnEveryBin(hist_counts, bin_total)

\* C30, amended: the two counts agree on every bin but the last; a prediction
\* equal to the last edge is counted in the last bin of the histogram, closed
\* on the right, and in the additional slot B of the calibration counts, whose
\* digitization is open on the right.  So the last bin of the histogram is
\* the sum of the last two calibration counts, and slot B holds exactly the
\* pixels whose prediction is the last edge.
C30_HistogramMatchesBinTotalButTopEdge ==
    /\ (IsMulticlass /\ ScanRunning) =>
          \A k \in Classes :
              /\ \A b \in 0 .. NBins - 2 : dict_hist_counts[k][b] = FromInt(dict_bin_total[k][b])
              /\ dict_hist_counts[k][NBins - 1] =
                    FromInt(dict_bin_total[k][NBins - 1] + dict_bin_total[k][NBins])
              /\ pc = "scan" =>
                    dict_bin_total[k][NBins] =
                        top_edge_pixels([s \in DOMAIN dataset |-> channel(dataset[s].pred, k)],
                                        dataset_index)
    /\ (IsBinary /\ BinRunning) =>
          /\ AgreeButTopEdge(hist_counts, bin_total)
          /\ pc = "done" =>
                bin_total[NBins] = top_edge_pixels([s \in DOMAIN dataset |-> dataset[s].pred],
                                                   len(dataset) - 1)
\* a pixel predicted at 1.0 was scanned: it is in the last bin of the histogram
\* and in slot B of the calibration counts, whose last bin is empty
C30_Witness ==
    \/ /\ IsMulticlass /\ pc = "scanned"
       /\ \E k \in Classes :
             /\ dict_bin_total[k][NBins] = 1 /\ dict_bin_total[k][NBins - 1] = 0
             /\ dict_hist_counts[k][NBins - 1] = One
    \/ /\ IsBinary /\ pc = "done"
       /\ bin_total[NBins] = 1 /\ bin_total[NBins - 1] = 0 /\ hist_counts[NBins - 1] = 1

====
